---------------------------- MODULE Spec2Model ----------------------------
(***************************************************************************)
(* Model of the wallpaper installation pipeline (WallpaperManager) and of  *)
(* the video conversion pipeline (VideoDownloader.convertToMov) of the     *)
(* macOS live video wallpaper setter.                                      *)
(*                                                                         *)
(* Spec        : one run of WallpaperManager.setupWallpaper                *)
(* SpecConv    : one run of VideoDownloader.convertToMov                   *)
(* SpecCleanup : one call of VideoDownloader.cleanupSourceFile             *)
(* SpecPerm    : one call of Utils.fixFilePermissions                      *)
(* SpecSteps   : a run of setupWallpaper or a run of convertToMov          *)
(* SpecHost    : run() of index.js up to the call of setupWallpaper, with  *)
(*               performDownload and the signal handlers                   *)
(* SpecScan    : one call of WallpaperManager.getExistingWallpapers        *)
(* SpecUtil    : one run of the cleanup utility (cleanup.js)               *)
(* SpecWait    : one call of WallpaperManager.waitForWallpaperSetup        *)
(* SpecFormat  : one call of VideoAnalyzer.findBestVideoFormat             *)
(***************************************************************************)
EXTENDS Integers, Sequences, FiniteSets, TLC

VARIABLES
    dirState,      \* state of the Customer / 4KSDR240FPS directories
    tfiles,        \* target directory: file index -> [content, mtime]
    backups,       \* backup directory: set of [base, ts, content]
    now,           \* clock (file timestamps, backup name timestamps)
    videoOk,       \* the converted video at videoPath exists
    backupRootOk,  \* the backup root can be created / written
    pc,            \* position of setupWallpaper
    attempts,      \* waitForWallpaperSetup: attempts
    list,          \* existingWallpapers of the branch (sorted scan)
    target,        \* asset handed on (wallpaperFile/targetWallpaper/selectedWallpaper)
    completed,     \* restartWallpaperDaemon: completed callbacks
    result,        \* value setupWallpaper returned ("none" while running)
    outcome,       \* which return/throw ended setupWallpaper
    hist,          \* observation record for the properties
    cpc,           \* position of convertToMov
    src,           \* the source video at inputPath: [exists, ext, size]
    out,           \* the file at outputPath (.mov): [exists, size]
    extended,      \* the file <name>_extended.mp4 exists
    duration,      \* duration probed by convertToMov
    processed,     \* processedInputPath: "input" or "extended"
    procs,         \* the ffmpeg transcodes started by convertWithHEVC
    cresult,       \* how convertToMov ended ("none" while running)
    extendedSize,  \* size of the file <name>_extended.mp4 (0 when missing)
    dresult,       \* how performDownload ended ("none" while running)
    chist,         \* observation record of the conversion
    perm,          \* one call of Utils.fixFilePermissions
    host,          \* the process of index.js: run(), handlers, exit status
    util,          \* one run of the cleanup utility (cleanup.js)
    fmt            \* one call of VideoAnalyzer.findBestVideoFormat

wmVars == <<dirState, tfiles, backups, now, videoOk, backupRootOk, pc, attempts,
            list, target, completed, result, outcome, hist>>

convVars == <<cpc, src, out, extended, duration, processed, procs, cresult,
              extendedSize, dresult, chist>>

vars == <<wmVars, convVars, perm, host, util, fmt>>

-----------------------------------------------------------------------------
(* Bounds and program constants *)

\* number of file names that may occur in the target directory
MaxFiles == 4

\* this.retryAttempts
retryAttempts == 30

\* null / no asset
NoAsset == 0

Names == 1..MaxFiles

\* extension of the file with index n (names are opaque; only the extension
\* matters to the scan and to the touch fallback)
ExtOf(n) ==
    CASE n % 5 = 1 -> "mov"
      [] n % 5 = 2 -> "mp4"
      [] n % 5 = 3 -> "mov"
      [] n % 5 = 4 -> "txt"
      [] OTHER     -> "MOV"

\* path.parse(name).name : the base name, the extension stripped
BaseOf(n) == <<"base", n>>

OrigContent(n) == <<"orig", n>>

NewContent == <<"video">>

-----------------------------------------------------------------------------
(* Strings typed at the prompts: sequences of one-character strings *)

Answers ==
    { <<>>, <<"y">>, <<"Y">>, <<"n">>, <<"y","e","s">>, <<"Y","e","s">>,
      <<"c">>, <<"C">>, <<"c","a","n","c","e","l">>, <<"C","A","N","C","E","L">>,
      <<"0">>, <<"1">>, <<"2">>, <<"3">>, <<"4">>, <<"1","0">>,
      <<"2","x">>, <<" ","2">>, <<"-","1">>, <<"x","2">> }

LowerChar(ch) ==
    CASE ch = "Y" -> "y"
      [] ch = "E" -> "e"
      [] ch = "S" -> "s"
      [] ch = "C" -> "c"
      [] ch = "A" -> "a"
      [] ch = "N" -> "n"
      [] ch = "L" -> "l"
      [] ch = "X" -> "x"
      [] ch = "M" -> "m"
      [] ch = "P" -> "p"
      [] OTHER    -> ch

\* String.prototype.toLowerCase
ToLowerCase(s) == [i \in 1..Len(s) |-> LowerChar(s[i])]

Digits == {"0","1","2","3","4","5","6","7","8","9"}

DigitVal(ch) ==
    CASE ch = "0" -> 0 [] ch = "1" -> 1 [] ch = "2" -> 2 [] ch = "3" -> 3
      [] ch = "4" -> 4 [] ch = "5" -> 5 [] ch = "6" -> 6 [] ch = "7" -> 7
      [] ch = "8" -> 8 [] OTHER -> 9

\* a parsed number: nan is TRUE for NaN, val is the value otherwise
NaN == [nan |-> TRUE, val |-> 0]

Num(v) == [nan |-> FALSE, val |-> v]

RECURSIVE SkipSpaces(_)
SkipSpaces(s) ==
    IF s # <<>> /\ Head(s) = " " THEN SkipSpaces(Tail(s)) ELSE s

RECURSIVE LeadingDigits(_, _)
LeadingDigits(s, acc) ==
    IF s # <<>> /\ Head(s) \in Digits
    THEN LeadingDigits(Tail(s), 10 * acc + DigitVal(Head(s)))
    ELSE acc

\* parseInt(answer): leading white space skipped, optional sign, then the
\* longest prefix of decimal digits; NaN when there is no digit
ParseInt(s) ==
    LET t    == SkipSpaces(s)
        neg  == t # <<>> /\ Head(t) = "-"
        body == IF t # <<>> /\ Head(t) \in {"-", "+"} THEN Tail(t) ELSE t
    IN  IF body = <<>> \/ Head(body) \notin Digits
        THEN NaN
        ELSE IF neg THEN Num(0 - LeadingDigits(body, 0))
                    ELSE Num(LeadingDigits(body, 0))

\* the cancel test of selectWallpaperFromList
IsCancel(answer) ==
    ToLowerCase(answer) = <<"c">> \/ ToLowerCase(answer) = <<"c","a","n","c","e","l">>

\* the range test of selectWallpaperFromList (TRUE: ask again)
\* faulty variant: 0 passes the range test
IsInvalidChoiceAllowingZero(answer, n) ==
    LET choice == ParseInt(answer)
    IN  choice.nan \/ choice.val < 0 \/ choice.val > n

IsInvalidChoice(answer, n) ==
    LET choice == ParseInt(answer)
    IN  choice.nan \/ choice.val < 1 \/ choice.val > n

\* faulty variant: an empty answer counts as yes
IsYesByDefault(answer) ==
    answer = <<>> \/ ToLowerCase(answer) = <<"y">>
                  \/ ToLowerCase(answer) = <<"y","e","s">>

\* the test of getUserConfirmation
IsYes(answer) ==
    ToLowerCase(answer) = <<"y">> \/ ToLowerCase(answer) = <<"y","e","s">>

-----------------------------------------------------------------------------
(* VideoAnalyzer.findBestVideoFormat *)

\* a limit on the length of the list handed to findBestVideoFormat
MaxFormats == 2

\* CONFIG.VIDEO_PREFERENCES
preferredFormats == <<"mp4", "mkv", "webm">>

preferredCodecs == <<"h264", "vp9", "av01">>

maxResolution == 2160

preferHighFps == TRUE

\* Array.prototype.indexOf: the first position from 0, -1 when absent
IndexOf(s, x) ==
    IF \E i \in 1..Len(s) : s[i] = x
    THEN (CHOOSE i \in 1..Len(s) : s[i] = x /\ \A j \in 1..(i - 1) : s[j] # x) - 1
    ELSE -1

\* the fields of a format that findBestVideoFormat reads; fps and filesize
\* 0 stand for a missing field (a.fps || 30, a.filesize || 0)
FormatShapes ==
    [height : {1080, 1440, 2160, 4320}, ext : {"mp4", "webm"}, fps : {0, 60},
     vcodec : {"h264", "vp9", "avc1.640028"}, filesize : {0, 10}]

\* the lists of formats: format_id is the position in the list
FormatLists ==
    UNION {[1..n -> FormatShapes] : n \in 0..MaxFormats}

WithFormatIds(shapes) ==
    [i \in 1..Len(shapes) |->
        [format_id |-> i, height |-> shapes[i].height, ext |-> shapes[i].ext,
         fps |-> shapes[i].fps, vcodec |-> shapes[i].vcodec,
         filesize |-> shapes[i].filesize]]

FpsOr30(f) == IF f.fps = 0 THEN 30 ELSE f.fps

\* the comparator of candidateFormats.sort
CompareFormats(a, b) ==
    LET aFormatScore == IndexOf(preferredFormats, a.ext)
        bFormatScore == IndexOf(preferredFormats, b.ext)
        aCodecScore  == IndexOf(preferredCodecs, a.vcodec)
        bCodecScore  == IndexOf(preferredCodecs, b.vcodec)
    IN  IF aFormatScore # bFormatScore THEN aFormatScore - bFormatScore
        ELSE IF preferHighFps /\ FpsOr30(a) # FpsOr30(b)
             THEN FpsOr30(b) - FpsOr30(a)
        ELSE IF aCodecScore # -1 /\ bCodecScore # -1
             THEN aCodecScore - bCodecScore
        ELSE b.filesize - a.filesize

\* Array.prototype.sort, a stable sort: an element moves in front of the
\* elements it compares less than
RECURSIVE InsertFormat(_, _)
InsertFormat(sorted, x) ==
    IF sorted = <<>> THEN <<x>>
    ELSE IF CompareFormats(x, sorted[Len(sorted)]) < 0
         THEN Append(InsertFormat(SubSeq(sorted, 1, Len(sorted) - 1), x),
                     sorted[Len(sorted)])
         ELSE Append(sorted, x)

RECURSIVE SortFormats(_)
SortFormats(s) ==
    IF s = <<>> THEN <<>>
    ELSE InsertFormat(SortFormats(SubSeq(s, 1, Len(s) - 1)), s[Len(s)])

MaxHeight(s) == CHOOSE h \in {s[i].height : i \in 1..Len(s)} :
                    \A i \in 1..Len(s) : s[i].height <= h

\* what a call ends with: a throw, undefined, or a format
Thrown == [kind |-> "threw", format |-> <<>>]

Undefined == [kind |-> "undefined", format |-> <<>>]

Returned(f) == [kind |-> "format", format |-> <<f>>]

\* findBestVideoFormat(videoFormats)
FindBestVideoFormat(videoFormats) ==
    IF Len(videoFormats) = 0 THEN Thrown
    ELSE LET highest == MaxHeight(videoFormats)
             selected == IF highest < maxResolution THEN highest ELSE maxResolution
             hasSelectedHeight(f) == f.height = selected
             candidateFormats == SelectSeq(videoFormats, hasSelectedHeight)
             sorted == SortFormats(candidateFormats)
         IN  \* element 0 of an empty array is undefined
             IF sorted = <<>> THEN Undefined ELSE Returned(sorted[1])

FmtAt(p, formats) == [pc |-> p, formats |-> formats, best |-> Undefined]

FmtIdle == fmt = FmtAt("idle", <<>>)

FormatInit == \E shapes \in FormatLists : fmt = FmtAt("call", WithFormatIds(shapes))

\* the call runs to its end
FindBestVideoFormatCall ==
    /\ fmt.pc = "call"
    /\ LET best == FindBestVideoFormat(fmt.formats)
       IN  fmt' = [fmt EXCEPT !.pc = IF best = Thrown THEN "threw" ELSE "returned",
                              !.best = best]
    /\ UNCHANGED <<util, wmVars, convVars, perm, host>>

-----------------------------------------------------------------------------
(* Inventory scan *)

IsVideoName(n) == ExtOf(n) = "mov" \/ ExtOf(n) = "mp4"

RECURSIVE SortByModifiedDesc(_, _)
SortByModifiedDesc(S, f) ==
    IF S = {} THEN <<>>
    ELSE LET newest == {n \in S : \A m \in S : f[m].mtime <= f[n].mtime}
             first  == CHOOSE n \in newest : \A m \in newest : n <= m
         IN  <<first>> \o SortByModifiedDesc(S \ {first}, f)

\* getExistingWallpapers: names of the .mov/.mp4 files, most recently
\* modified first; [] when the directory does not exist
getExistingWallpapers(ds, f) ==
    IF ds \in {"noCustomer", "noTarget"} THEN <<>>
    ELSE SortByModifiedDesc({n \in DOMAIN f : IsVideoName(n)}, f)

isTargetDirectoryEmpty(ds, f) == Len(getExistingWallpapers(ds, f)) = 0

-----------------------------------------------------------------------------
(* State after construction, before setupWallpaper(videoPath) is called *)

NoAnswer == <<"(none)">>

InitialMtime(order, n) == IF order = "asc" THEN n ELSE MaxFiles + 1 - n

OldBackup == [base |-> BaseOf(1), ts |-> 0, content |-> <<"old">>]

HistInit(f, b) ==
    [ dir0 |-> f, backups0 |-> b, n0 |-> -1, waitEntered |-> FALSE,
      selectShown |-> FALSE, confirmShown |-> FALSE,
      selectAnswer |-> NoAnswer, confirmAnswer |-> NoAnswer,
      cancelTyped |-> FALSE, backupCalls |-> <<>>, installCalls |-> <<>>,
      confirmCalled |-> FALSE, backupFailed |-> FALSE, dirAtBackup |-> f,
      dirPre |-> f, writeTime |-> 0, detected |-> NoAsset,
      timedOut |-> FALSE, written |-> {}, verified |-> FALSE,
      refreshErrors |-> {}, permCalls |-> <<>>, permissionFixed |-> <<>>,
      backupReturned |-> "none" ]

WMInit ==
    /\ dirState \in {"noCustomer", "noTarget", "readonly", "ok"}
    /\ \E P \in SUBSET Names, order \in {"asc", "desc"} :
          tfiles = IF dirState \in {"noCustomer", "noTarget"}
                   THEN <<>>
                   ELSE [n \in P |-> [content |-> OrigContent(n),
                                      mtime   |-> InitialMtime(order, n)]]
    /\ backups \in {{}, {OldBackup}}
    /\ now = MaxFiles + 1
    /\ videoOk \in BOOLEAN
    /\ backupRootOk \in BOOLEAN
    /\ pc = "start"
    /\ attempts = 0
    /\ list = <<>>
    /\ target = NoAsset
    /\ completed = 0
    /\ result = "none"
    /\ outcome = "running"
    /\ hist = HistInit(tfiles, backups)

-----------------------------------------------------------------------------
(* The process of index.js: handlers, process.exit *)

\* the process as run() is about to reach stage p; status is <<>> while the
\* process lives and <<n>> when it has ended with status n
\* what performFullCheck reads: process.getuid() === 0, SUDO_USER defined,
\* 'yt-dlp --version' and 'ffmpeg -version' end with code 0
HostEnvironment(root, sudoUser, ytdlp, ffmpeg) ==
    [isRoot |-> root, sudoUser |-> sudoUser, ytdlp |-> ytdlp, ffmpeg |-> ffmpeg]

\* sudo node index.js on a machine with both tools
SudoEnvironment == HostEnvironment(TRUE, TRUE, TRUE, TRUE)

HostAt(p, flag, registered) ==
    [pc |-> p,
     env |-> SudoEnvironment,
     cleanupFlag |-> flag,             \* process.argv holds --cleanup
     shutdownHandlers |-> registered,  \* setupShutdownHandlers has run
     cleanupHandlers |-> registered,   \* setupCleanupHandlers has run
     currentProcess |-> 0,             \* downloader.currentProcess (0: null)
     isDownloading |-> FALSE,          \* downloader.isDownloading
     downloads |-> <<>>,               \* events of each yt-dlp that was spawned
     started |-> {},                   \* stages of run() that were entered
     files0 |-> [mov |-> FALSE, source |-> FALSE],
     interrupted |-> FALSE,            \* SIGINT/SIGTERM was delivered
     signalled |-> {},                 \* subprocesses that were sent SIGTERM
     left |-> {},                      \* subprocesses running when the process ended
     error |-> "none",                 \* what handleError was called for
     status |-> <<>>]

\* no program is running: the methods are exercised on their own
HostIdle == host = HostAt("idle", FALSE, FALSE)

\* setupWallpaper is called by run(), which has passed performDownload
HostAtSetup == host = HostAt("setup", FALSE, TRUE)

\* convertToMov is called by performDownload
HostAtConvert == host = HostAt("perform", FALSE, TRUE)

\* the process has not ended: its callbacks and continuations still run
Alive == host.status = <<>>

\* currentProcess.kill('SIGTERM') when currentProcess is set and not killed
KillCurrent(h) ==
    IF h.currentProcess # 0
    THEN [h EXCEPT !.signalled = @ \cup {<<"yt-dlp", h.currentProcess>>}]
    ELSE h

\* faulty variant: the fields are cleared, the subprocess is not signalled
CancelDownloadWithoutKill(h) ==
    IF h.currentProcess # 0
    THEN [h EXCEPT !.isDownloading = FALSE, !.currentProcess = 0]
    ELSE h

\* downloader.cancelDownload()
CancelDownload(h) ==
    IF h.currentProcess # 0
    THEN [KillCurrent(h) EXCEPT !.isDownloading = FALSE, !.currentProcess = 0]
    ELSE h

\* process.exit(code) of Node: process.exitCode is set, the 'exit' listeners
\* run once, the process ends with process.exitCode.  The 'exit' listener of
\* setupCleanupHandlers kills currentProcess and calls process.exit(0),
\* which sets process.exitCode again and ends the process at once.
ProcessExit(h, code, running) ==
    LET g == IF h.cleanupHandlers THEN KillCurrent(h) ELSE h
        final == IF h.cleanupHandlers THEN 0 ELSE code
    IN  [g EXCEPT !.pc = "exited",
                  !.status = <<final>>,
                  !.left = running \ g.signalled]

\* downloader.isDownloadInProgress() guards cancelDownload() in handleError
\* and in gracefulShutdown
CancelIfInProgress(h) == IF h.isDownloading THEN CancelDownload(h) ELSE h

\* handleError(error): a download in progress is cancelled, process.exit(1)
HandleError(h, what, running) ==
    ProcessExit([CancelIfInProgress(h) EXCEPT !.error = what], 1, running)

\* gracefulShutdown(signal), the first listener of SIGINT and SIGTERM
GracefulShutdown(h, running) ==
    ProcessExit([CancelIfInProgress(h) EXCEPT !.interrupted = TRUE], 0, running)

\* the subprocesses of the download and of the conversion that were spawned
\* and have emitted nothing yet
RunningSubprocesses ==
         {<<"yt-dlp", i>> : i \in {j \in 1..Len(host.downloads) :
                                      host.downloads[j] = <<>>}}
    \cup (IF cpc \in {"probe", "extend_probe"} THEN {<<"ffprobe", 1>>} ELSE {})
    \cup (IF cpc = "extend" THEN {<<"ffmpeg-loop", 1>>} ELSE {})
    \cup {<<"ffmpeg", i>> : i \in {j \in 1..Len(procs) : procs[j].events = <<>>}}
    \cup (IF perm.pc = "chown" /\ perm.events = <<>> THEN {<<"chown", 1>>} ELSE {})

-----
(* Utils.fixFilePermissions *)

\* process.env: which of SUDO_USER, USER, SUDO_UID, SUDO_GID are set
Envs == [sudoUser : BOOLEAN, user : BOOLEAN, sudoUid : BOOLEAN, sudoGid : BOOLEAN]

\* the file at filePath as sudo left it, or as the user owns it
PermFiles == [owner : {"root", "user"}, mode : {"rw-------", "rw-r--r--"}]

\* exit codes of chown delivered with 'close'
ChownCodes == {0, 1}

\* the code delivered with 'close' after a failed spawn (a negative errno)
SpawnFailedCode == -2

\* a call fixFilePermissions(filePath): path names the file
PermCall(pcv, path, e, f) ==
    [pc |-> pcv, path |-> path, env |-> e, file |-> f, events |-> <<>>,
     promise |-> "pending", resolveCalls |-> 0, steps |-> <<>>]

NoPermCall ==
    PermCall("idle", "none",
             [sudoUser |-> FALSE, user |-> FALSE, sudoUid |-> FALSE, sudoGid |-> FALSE],
             [owner |-> "root", mode |-> "rw-------"])

PermIdle == perm = NoPermCall

PermInit == \E e \in Envs, f \in PermFiles : perm = PermCall("start", "file", e, f)

\* the environment of a run: sudo sets SUDO_USER, SUDO_UID and SUDO_GID
\* together, USER is set
RunEnvs ==
    {e \in Envs : e.user /\ e.sudoUser = e.sudoUid /\ e.sudoUid = e.sudoGid}

\* a file the run has just created: it belongs to root under sudo
CreatedFile(e) ==
    [owner |-> IF e.sudoUid THEN "root" ELSE "user", mode |-> "rw-r--r--"]

\* faulty variant: the user name alone decides
RunningWithSudoByUserName(e) == e.sudoUser \/ e.user

\* originalUser && originalUid && originalGid
RunningWithSudo(e) == (e.sudoUser \/ e.user) /\ e.sudoUid /\ e.sudoGid

\* resolve(value): the first call settles the promise
Resolve(p, value) ==
    [p EXCEPT !.promise = IF @ = "pending" THEN value ELSE @,
              !.resolveCalls = @ + 1]

Step(name, ok) == [step |-> name, ok |-> ok]

\* fs.chmodSync(filePath, 0o664) inside try/catch, and the resolve after it
ChmodAndResolve(p, chmodOk) ==
    Resolve([p EXCEPT !.file.mode = IF chmodOk THEN "rw-rw-r--" ELSE @,
                      !.steps = Append(@, Step("chmod", chmodOk))],
            IF chmodOk THEN "true" ELSE "false")

\* faulty variant: the exit code of chown is not looked at
AfterChownIgnoringCode(p, code, chmodOk) ==
    ChmodAndResolve([p EXCEPT !.steps = Append(@, Step("chown", code = 0))], chmodOk)

\* the 'close' handler of the chown process
AfterChown(p, code, chmodOk) ==
    LET q == [p EXCEPT !.steps = Append(@, Step("chown", code = 0)),
                       !.file.owner = IF code = 0 THEN "user" ELSE @]
    IN  IF code = 0 THEN ChmodAndResolve(q, chmodOk) ELSE Resolve(q, "false")

\* the executor of the promise, which runs inside the call: chown is
\* spawned (or spawn throws), or the mode is set at once
AfterExecutor(p, spawnThrew, chmodOk) ==
    IF RunningWithSudo(p.env)
    THEN IF spawnThrew
         THEN Resolve([p EXCEPT !.pc = "done",
                                !.steps = Append(@, Step("spawn", FALSE))],
                      "false")
         ELSE [p EXCEPT !.pc = "chown"]
    ELSE [ChmodAndResolve(p, chmodOk) EXCEPT !.pc = "done"]

\* fixFilePermissions(path), called by a step of the run on the file it
\* has created
CalledOn(path, e, spawnThrew, chmodOk) ==
    AfterExecutor(PermCall("start", path, e, CreatedFile(e)), spawnThrew, chmodOk)

\* Utils.fixFilePermissions(filePath) is called
PermStart ==
    /\ perm.pc = "start"
    /\ \E spawnThrew \in BOOLEAN, chmodOk \in BOOLEAN :
         perm' = AfterExecutor(perm, spawnThrew, chmodOk)
    /\ UNCHANGED <<fmt, util, wmVars, convVars, host>>

\* 'error' of the chown process (the spawn failed)
ChownError ==
    /\ Alive
    /\ perm.pc = "chown"
    /\ perm.events = <<>>
    /\ perm' = Resolve([perm EXCEPT !.events = Append(@, "error"),
                                    !.steps = Append(@, Step("chown", FALSE))],
                       "false")
    /\ UNCHANGED <<fmt, util, wmVars, convVars, host>>

\* 'close' of the chown process: with its exit code, or after 'error' with
\* the negative errno
ChownClose ==
    /\ Alive
    /\ perm.pc = "chown"
    /\ \E chmodOk \in BOOLEAN :
         \E code \in IF perm.events = <<>> THEN ChownCodes ELSE {SpawnFailedCode} :
            perm' = [AfterChown([perm EXCEPT !.events = Append(@, "close")], code, chmodOk)
                        EXCEPT !.pc = "done"]
    /\ UNCHANGED <<fmt, util, wmVars, convVars, host>>

-----------------------------------------------------------------------------
(* The cleanup utility (cleanup.js) *)

\* number of .mov/.mp4 files in the outputs and backup directories
MaxUtilFiles == 2

NoUtilAnswer == <<"none">>

\* a run of the utility: files maps each .mov/.mp4 file of the scanned
\* directories to its owner and mode (a deleted file leaves the domain)
UtilAt(p, e, f) ==
    [pc |-> p, env |-> e, files |-> f, files0 |-> f,
     problematicFiles |-> <<>>,     \* this.problematicFiles
     index |-> 1,                   \* position of the for loop
     choice |-> NoUtilAnswer,       \* the answer typed at the menu
     confirmation |-> NoUtilAnswer, \* the answer typed at (y/N)
     permCalls |-> {},              \* files handed to fixFilePermissions
     unlinkCalls |-> {}]            \* files handed to fs.unlinkSync

UtilIdle ==
    util = UtilAt("idle",
                  [sudoUser |-> FALSE, user |-> FALSE, sudoUid |-> FALSE, sudoGid |-> FALSE],
                  <<>>)

UtilInit ==
    \E e \in RunEnvs, n \in 0..MaxUtilFiles :
        \E f \in [1..n -> PermFiles] : util = UtilAt("scan", e, f)

\* Utils.hasPermissionIssues: the file belongs to root and the process is
\* not root, or the file cannot be written (root writes every file, the
\* owner writes a file of mode rw-...)
HasPermissionIssues(f, e) ==
    LET isRoot   == e.sudoUid
        writable == isRoot \/ f.owner = "user"
    IN  (f.owner = "root" /\ ~isRoot) \/ ~writable

RECURSIVE ProblematicFrom(_, _, _)
ProblematicFrom(f, e, i) ==
    IF i \notin DOMAIN f THEN <<>>
    ELSE (IF HasPermissionIssues(f[i], e) THEN <<i>> ELSE <<>>)
            \o ProblematicFrom(f, e, i + 1)

\* scanForProblematicFiles; run() returns when the list is empty, else the
\* files are shown and the menu is asked
UtilScan ==
    /\ util.pc = "scan"
    /\ LET found == ProblematicFrom(util.files, util.env, 1)
       IN  util' = [util EXCEPT !.problematicFiles = found,
                                !.pc = IF found = <<>> THEN "done" ELSE "choice"]
    /\ UNCHANGED <<fmt, wmVars, convVars, perm, host>>

RECURSIVE DropTrailingSpaces(_)
DropTrailingSpaces(s) ==
    IF s # <<>> /\ s[Len(s)] = " "
    THEN DropTrailingSpaces(SubSeq(s, 1, Len(s) - 1))
    ELSE s

\* String.prototype.trim
Trim(s) == DropTrailingSpaces(SkipSpaces(s))

\* the switch of getUserChoice on answer.trim()
GetUserChoice(answer) ==
    CASE Trim(answer) = <<"1">> -> "fix"
      [] Trim(answer) = <<"2">> -> "delete"
      [] OTHER -> "exit"

\* getUserChoice resolves; run() calls fixPermissions or deleteFiles (which
\* asks for the confirmation) or logs that the cleanup is cancelled
UtilChoice ==
    /\ util.pc = "choice"
    /\ \E answer \in Answers :
         util' = [util EXCEPT !.choice = answer,
                              !.pc = CASE GetUserChoice(answer) = "fix" -> "fix"
                                       [] GetUserChoice(answer) = "delete" -> "confirm"
                                       [] OTHER -> "done"]
    /\ UNCHANGED <<fmt, wmVars, convVars, perm, host>>

\* faulty variant: everything but 'n' confirms
ConfirmDeletionUnlessNo(answer) == ToLowerCase(answer) # <<"n">>

\* the test of confirmDeletion
ConfirmDeletion(answer) ==
    ToLowerCase(answer) = <<"y">> \/ ToLowerCase(answer) = <<"y","e","s">>

\* confirmDeletion resolves; deleteFiles returns when it is false
UtilConfirm ==
    /\ util.pc = "confirm"
    /\ \E answer \in Answers :
         util' = [util EXCEPT !.confirmation = answer,
                              !.pc = IF ConfirmDeletion(answer) THEN "delete" ELSE "done"]
    /\ UNCHANGED <<fmt, wmVars, convVars, perm, host>>

\* the file a call of Utils.fixFilePermissions leaves when it has settled:
\* the chown could not be spawned, or it closed with a code (the negative
\* errno after 'error'), or the mode was set at once
FixedFile(e, f, spawnThrew, code, chmodOk) ==
    LET p == AfterExecutor(PermCall("start", "file", e, f), spawnThrew, chmodOk)
    IN  IF p.pc = "chown" THEN AfterChown(p, code, chmodOk).file ELSE p.file

\* the for loop of fixPermissions and of deleteFiles has handled the file
\* at index
UtilLoopStep(h) ==
    [h EXCEPT !.index = @ + 1,
              !.pc = IF h.index = Len(h.problematicFiles) THEN "done" ELSE @]

\* fixPermissions: await Utils.fixFilePermissions(filePath) for one file
UtilFix ==
    /\ util.pc = "fix"
    /\ LET i == util.problematicFiles[util.index]
       IN  \E spawnThrew \in BOOLEAN, chmodOk \in BOOLEAN,
              code \in ChownCodes \cup {SpawnFailedCode} :
             util' = UtilLoopStep(
                        [util EXCEPT !.files[i] = FixedFile(util.env, @, spawnThrew, code, chmodOk),
                                     !.permCalls = @ \cup {i}])
    /\ UNCHANGED <<fmt, wmVars, convVars, perm, host>>

\* deleteFiles: await Utils.fixFilePermissions(filePath), then
\* fs.unlinkSync(filePath), which removes the file or throws
UtilDelete ==
    /\ util.pc = "delete"
    /\ LET i == util.problematicFiles[util.index]
       IN  \E spawnThrew \in BOOLEAN, chmodOk \in BOOLEAN,
              code \in ChownCodes \cup {SpawnFailedCode}, unlinked \in BOOLEAN :
             LET fixed == [util.files EXCEPT
                              ![i] = FixedFile(util.env, @, spawnThrew, code, chmodOk)]
             IN  util' = UtilLoopStep(
                            [util EXCEPT
                                !.files = IF unlinked
                                          THEN [k \in DOMAIN fixed \ {i} |-> fixed[k]]
                                          ELSE fixed,
                                !.permCalls = @ \cup {i},
                                !.unlinkCalls = @ \cup {i}])
    /\ UNCHANGED <<fmt, wmVars, convVars, perm, host>>

-----------------------------------------------------------------------------
(* setupWallpaper and the methods it awaits *)

\* a return (or a caught throw) of setupWallpaper
Finish(value, how) ==
    /\ pc' = "done"
    /\ result' = value
    /\ outcome' = how

\* checkCustomerDirectory and the throw of setupWallpaper when it is false
CheckCustomerDirectory ==
    /\ pc = "start"
    /\ \E r \in {"ok", "readonly", "noTarget"} :
         /\ dirState' = IF dirState = "noTarget" THEN r ELSE dirState
         /\ IF dirState' = "ok"
            THEN pc' = "branch" /\ UNCHANGED <<result, outcome>>
            ELSE Finish("false", "threw")
    /\ UNCHANGED <<tfiles, backups, now, videoOk, backupRootOk, attempts, list,
                   target, completed, hist>>
    /\ UNCHANGED <<fmt, util, convVars, perm, host>>

\* the synchronous start of getUserConfirmation: statSync(newVideoPath)
\* throws when the video is missing, else the prompt is shown
EnterConfirmation(h) ==
    IF videoOk
    THEN /\ pc' = "confirm"
         /\ hist' = [h EXCEPT !.confirmCalled = TRUE, !.confirmShown = TRUE]
         /\ UNCHANGED <<result, outcome>>
    ELSE /\ Finish("false", "threw")
         /\ hist' = [h EXCEPT !.confirmCalled = TRUE]

\* faulty variant: the most recent asset is taken whenever there is one
BranchKindNoSelection(length) ==
    IF length = 0 THEN "seed" ELSE "single"

\* the tests of existingWallpapers.length in setupWallpaper
BranchKind(length) ==
    IF length = 0 THEN "seed"
    ELSE IF length = 1 THEN "single"
    ELSE "many"

\* the branch of setupWallpaper on the inventory
BranchOnInventory ==
    /\ pc = "branch"
    /\ LET existingWallpapers == getExistingWallpapers(dirState, tfiles)
           h == [hist EXCEPT !.n0 = Len(existingWallpapers)]
       IN  IF isTargetDirectoryEmpty(dirState, tfiles)
              \/ BranchKind(Len(existingWallpapers)) = "seed"
           THEN /\ pc' = "open_settings"
                /\ hist' = h
                /\ UNCHANGED <<list, target, result, outcome>>
           ELSE IF BranchKind(Len(existingWallpapers)) = "single"
           THEN /\ list' = existingWallpapers
                /\ target' = existingWallpapers[1]
                /\ EnterConfirmation(h)
           ELSE /\ list' = existingWallpapers
                /\ pc' = "select"
                /\ hist' = [h EXCEPT !.selectShown = TRUE]
                /\ UNCHANGED <<target, result, outcome>>
    /\ UNCHANGED <<dirState, tfiles, backups, now, videoOk, backupRootOk,
                   attempts, completed>>
    /\ UNCHANGED <<fmt, util, convVars, perm, host>>

\* openWallpaperSettings resolves (true or false; the caller ignores it)
OpenSettingsDone ==
    /\ pc = "open_settings"
    /\ \E opened \in BOOLEAN :
         /\ pc' = "wait"
         /\ attempts' = 0
         /\ hist' = [hist EXCEPT !.waitEntered = TRUE]
    /\ UNCHANGED <<dirState, tfiles, backups, now, videoOk, backupRootOk, list,
                   target, completed, result, outcome>>
    /\ UNCHANGED <<fmt, util, convVars, perm, host>>

\* one iteration of the loop of waitForWallpaperSetup up to its sleep, or
\* its return (the local counter attempts is gone then)
WaitPoll ==
    /\ pc = "wait"
    /\ attempts < retryAttempts
    /\ LET wallpapers == getExistingWallpapers(dirState, tfiles)
       IN  IF Len(wallpapers) > 0
           THEN /\ target' = wallpapers[1]
                /\ list' = wallpapers
                /\ hist' = [hist EXCEPT !.detected = wallpapers[1]]
                /\ pc' = "backup"
                /\ attempts' = 0
           ELSE /\ pc' = "sleep"
                /\ UNCHANGED <<target, list, hist, attempts>>
    /\ UNCHANGED <<dirState, tfiles, backups, now, videoOk, backupRootOk,
                   completed, result, outcome>>
    /\ UNCHANGED <<fmt, util, convVars, perm, host>>

\* faulty variant: the loop of waitForWallpaperSetup ends without a throw: the
\* method returns undefined and setupWallpaper goes on with it
WaitTimeoutSilent ==
    /\ pc' = "backup"
    /\ hist' = [hist EXCEPT !.timedOut = TRUE]
    /\ UNCHANGED <<result, outcome>>

\* the throw after the loop of waitForWallpaperSetup, caught by
\* setupWallpaper, which returns false
WaitTimeout ==
    /\ Finish("false", "threw")
    /\ hist' = [hist EXCEPT !.timedOut = TRUE]

\* faulty variant: the counter is not advanced
SleepDoneNotCounting ==
    /\ pc = "sleep"
    /\ pc' = "wait"
    /\ UNCHANGED <<attempts, result, outcome, hist>>
    /\ UNCHANGED <<dirState, tfiles, backups, now, videoOk, backupRootOk, list,
                   target, completed>>
    /\ UNCHANGED <<fmt, util, convVars, perm, host>>

\* the sleep is over: attempts++, the loop test, the throw after the loop
SleepDone ==
    /\ pc = "sleep"
    /\ attempts' = attempts + 1
    /\ IF attempts' < retryAttempts
       THEN pc' = "wait" /\ UNCHANGED <<result, outcome, hist>>
       ELSE WaitTimeout
    /\ UNCHANGED <<dirState, tfiles, backups, now, videoOk, backupRootOk, list,
                   target, completed>>
    /\ UNCHANGED <<fmt, util, convVars, perm, host>>

\* the user downloads a wallpaper in System Settings while the tool waits
UserSeeds ==
    /\ pc \in {"open_settings", "wait", "sleep"}
    /\ \E n \in Names \ DOMAIN tfiles :
         tfiles' = [m \in DOMAIN tfiles \cup {n} |->
                      IF m = n THEN [content |-> OrigContent(n), mtime |-> now]
                               ELSE tfiles[m]]
    /\ now' = now + 1
    /\ UNCHANGED <<dirState, backups, videoOk, backupRootOk, pc, attempts, list,
                   target, completed, result, outcome, hist>>
    /\ UNCHANGED <<fmt, util, convVars, perm, host>>

\* an array element; undefined (no asset) outside the array
At(wallpapers, i) ==
    IF i \in 1..Len(wallpapers) THEN wallpapers[i] ELSE NoAsset

\* faulty variant: the choice is used as the index, without the - 1
SelectedAssetOffByOne(wallpapers, answer) ==
    At(wallpapers, ParseInt(answer).val + 1)

\* wallpapers[choice - 1] (arrays of the model start at 1)
SelectedAsset(wallpapers, answer) ==
    At(wallpapers, ParseInt(answer).val)

\* the callback of rl.question in selectWallpaperFromList; on a choice the
\* test of setupWallpaper on what was resolved and the start of
\* getUserConfirmation
SelectAnswer ==
    /\ pc = "select"
    /\ \E answer \in Answers :
         LET h == [hist EXCEPT !.selectAnswer = answer] IN
         IF IsCancel(answer)
         THEN /\ Finish("false", "cancelled")
              /\ hist' = [h EXCEPT !.cancelTyped = TRUE]
              /\ UNCHANGED target
         ELSE IF IsInvalidChoice(answer, Len(list))
         THEN /\ hist' = h
              /\ UNCHANGED <<pc, target, result, outcome>>
         ELSE IF SelectedAsset(list, answer) = NoAsset
         THEN /\ Finish("false", "cancelled")
              /\ hist' = h
              /\ UNCHANGED target
         ELSE /\ target' = SelectedAsset(list, answer)
              /\ EnterConfirmation(h)
    /\ UNCHANGED <<dirState, tfiles, backups, now, videoOk, backupRootOk,
                   attempts, list, completed>>
    /\ UNCHANGED <<fmt, util, convVars, perm, host>>

\* the callback of rl.question in getUserConfirmation
ConfirmAnswer ==
    /\ pc = "confirm"
    /\ \E answer \in Answers :
         /\ hist' = [hist EXCEPT !.confirmAnswer = answer]
         /\ IF IsYes(answer)
            THEN pc' = "backup" /\ UNCHANGED <<result, outcome>>
            ELSE Finish("false", "cancelled")
    /\ UNCHANGED <<dirState, tfiles, backups, now, videoOk, backupRootOk,
                   attempts, list, target, completed>>
    /\ UNCHANGED <<fmt, util, convVars, perm, host>>

\* the backup file name: base name, "_backup_", time stamp, ".mov"
BackupName(n, t) == [base |-> BaseOf(n), ts |-> t]

\* fs.copyFileSync(wallpaperFile.path, backupPath): the backup directory
\* after the copy (a file of the same name is replaced)
CopyToBackupDir(dir, n, t, bytes) ==
    {b \in dir : BackupName(n, t) # [base |-> b.base, ts |-> b.ts]}
        \cup {[base |-> BaseOf(n), ts |-> t, content |-> bytes]}

\* createBackup up to its await: ensureDirectoryExists and copyFileSync, or
\* the catch that logs a warning and returns null
CreateBackup ==
    /\ pc = "backup"
    /\ IF backupRootOk /\ target \in DOMAIN tfiles
       THEN /\ backups' = CopyToBackupDir(backups, target, now, tfiles[target].content)
            /\ now' = now + 1
            /\ pc' = "backup_perm"
            /\ \E e \in RunEnvs, spawnThrew \in BOOLEAN, chmodOk \in BOOLEAN :
                 perm' = CalledOn("backup", e, spawnThrew, chmodOk)
            /\ hist' = [hist EXCEPT !.backupCalls = Append(@, target),
                                    !.dirAtBackup = tfiles,
                                    !.permCalls = Append(@, "backup")]
       ELSE /\ pc' = "install"
            /\ hist' = [hist EXCEPT !.backupCalls = Append(@, target),
                                    !.dirAtBackup = tfiles,
                                    !.backupFailed = TRUE,
                                    !.backupReturned = "null"]
            /\ UNCHANGED <<backups, now, perm>>
    /\ UNCHANGED <<dirState, tfiles, videoOk, backupRootOk, attempts, list,
                   target, completed, result, outcome>>
    /\ UNCHANGED <<fmt, util, convVars, host>>

\* faulty variant: createBackup gives up when the permissions were not fixed
BackupReturnNullOnFailure(permissionFixed) ==
    IF permissionFixed = "true" THEN "path" ELSE "null"

\* what createBackup returns once permissionFixed is known: backupPath
BackupReturn(permissionFixed) == "path"

\* Utils.fixFilePermissions(backupPath) has settled; createBackup returns
\* the backup path whatever the value, and setupWallpaper goes on to
\* install.  A 'close' of chown that follows its 'error' finds the promise
\* settled and changes nothing: the call is not followed further.
BackupPermissionsSettled ==
    /\ pc = "backup_perm"
    /\ perm.promise # "pending"
    /\ pc' = "install"
    /\ hist' = [hist EXCEPT !.permissionFixed = <<perm.promise>>,
                            !.backupReturned = BackupReturn(perm.promise)]
    /\ perm' = NoPermCall
    /\ UNCHANGED <<dirState, tfiles, backups, now, videoOk, backupRootOk,
                   attempts, list, target, completed, result, outcome>>
    /\ UNCHANGED <<fmt, util, convVars, host>>

\* faulty variant: the file is installed under a name of its own
TargetPathRenamed(targetWallpaperName) == (targetWallpaperName % MaxFiles) + 1

\* path.join(this.targetDir, targetWallpaperName)
TargetPath(targetWallpaperName) == targetWallpaperName

\* fs.copyFileSync(videoPath, targetPath): the directory after the copy
CopyToTargetDir(f, n, bytes, t) ==
    [m \in DOMAIN f \cup {n} |->
        IF m = n THEN [content |-> bytes, mtime |-> t] ELSE f[m]]

\* installWallpaper: the copy; a failed copy is caught and returns false
InstallCopy ==
    /\ pc = "install"
    /\ \E copied \in BOOLEAN :
         LET h == [hist EXCEPT !.installCalls = Append(@, target),
                               !.dirPre = tfiles]
         IN  IF copied /\ videoOk
             THEN /\ tfiles' = CopyToTargetDir(tfiles, TargetPath(target), NewContent, now)
                  /\ now' = now + 1
                  /\ pc' = "verify"
                  /\ hist' = [h EXCEPT !.written = @ \cup {TargetPath(target)},
                                        !.writeTime = now]
                  /\ UNCHANGED <<result, outcome>>
             ELSE /\ Finish("false", "install_failed")
                  /\ hist' = h
                  /\ UNCHANGED <<tfiles, now>>
    /\ UNCHANGED <<dirState, backups, videoOk, backupRootOk, attempts, list,
                   target, completed>>
    /\ UNCHANGED <<fmt, util, convVars, perm, host>>

\* the case the verification of installWallpaper guards against: the file
\* is gone again when it is looked for
ExternalDelete ==
    /\ pc = "verify"
    /\ TargetPath(target) \in DOMAIN tfiles
    /\ tfiles' = [m \in DOMAIN tfiles \ {TargetPath(target)} |-> tfiles[m]]
    /\ UNCHANGED <<dirState, backups, now, videoOk, backupRootOk, pc, attempts,
                   list, target, completed, result, outcome, hist>>
    /\ UNCHANGED <<fmt, util, convVars, perm, host>>

\* faulty variant: the refresh is started without looking for the file
InstallVerifyUnchecked ==
    /\ pc = "verify"
    /\ pc' = "daemon"
    /\ completed' = 0
    /\ hist' = [hist EXCEPT !.verified = TRUE]
    /\ UNCHANGED <<result, outcome>>
    /\ UNCHANGED <<dirState, tfiles, backups, now, videoOk, backupRootOk,
                   attempts, list, target>>
    /\ UNCHANGED <<fmt, util, convVars, perm, host>>

\* installWallpaper: existsSync(targetPath), then refreshWallpaperSystem
\* starts restartWallpaperDaemon (both launchctl commands are started)
InstallVerify ==
    /\ pc = "verify"
    /\ IF TargetPath(target) \in DOMAIN tfiles
       THEN /\ pc' = "daemon"
            /\ completed' = 0
            /\ hist' = [hist EXCEPT !.verified = TRUE]
            /\ UNCHANGED <<result, outcome>>
       ELSE /\ Finish("false", "install_failed")
            /\ UNCHANGED <<completed, hist>>
    /\ UNCHANGED <<dirState, tfiles, backups, now, videoOk, backupRootOk,
                   attempts, list, target>>
    /\ UNCHANGED <<fmt, util, convVars, perm, host>>

\* the error a refresh command ended with is noted
RefreshError(error, which) ==
    IF error THEN [hist EXCEPT !.refreshErrors = @ \cup {which}] ELSE hist

\* the callback of one launchctl command; the last one resolves, and
\* refreshWallpaperSystem starts the osascript of forceWallpaperRefresh
DaemonCommandDone ==
    /\ pc = "daemon"
    /\ \E error \in BOOLEAN :
         /\ completed' = completed + 1
         /\ pc' = IF completed' = 2 THEN "osascript" ELSE "daemon"
         /\ hist' = RefreshError(error, "daemon")
    /\ UNCHANGED <<dirState, tfiles, backups, now, videoOk, backupRootOk,
                   attempts, list, target, result, outcome>>
    /\ UNCHANGED <<fmt, util, convVars, perm, host>>

\* faulty variant: a failed osascript ends the install as a failure
RefreshScriptDoneRejecting ==
    /\ pc = "osascript"
    /\ \E error \in BOOLEAN :
         /\ IF error
            THEN Finish("false", "install_failed")
            ELSE Finish("true", "installed")
         /\ hist' = RefreshError(error, "script")
    /\ UNCHANGED <<dirState, tfiles, backups, now, videoOk, backupRootOk,
                   attempts, list, target, completed>>
    /\ UNCHANGED <<fmt, util, convVars, perm, host>>

\* the callback of the osascript: resolved, or the touch fallback started
RefreshScriptDone ==
    /\ pc = "osascript"
    /\ \E error \in BOOLEAN :
         /\ IF error
            THEN pc' = "touch" /\ UNCHANGED <<result, outcome>>
            ELSE Finish("true", "installed")
         /\ hist' = RefreshError(error, "script")
    /\ UNCHANGED <<dirState, tfiles, backups, now, videoOk, backupRootOk,
                   attempts, list, target, completed>>
    /\ UNCHANGED <<fmt, util, convVars, perm, host>>

\* faulty variant: the files are rewritten (truncated) instead of touched
TouchMovFilesTruncating(f, t) ==
    [m \in DOMAIN f |->
        IF ExtOf(m) = "mov" THEN [content |-> <<"empty">>, mtime |-> t] ELSE f[m]]

\* find "<targetDir>" -name "*.mov" -exec touch {} \;
TouchMovFiles(f, t) ==
    [m \in DOMAIN f |->
        IF ExtOf(m) = "mov" THEN [f[m] EXCEPT !.mtime = t] ELSE f[m]]

\* the callback of the touch command: forceWallpaperRefresh resolves,
\* refreshWallpaperSystem ends and installWallpaper returns true
TouchDone ==
    /\ pc = "touch"
    /\ \E touchError \in BOOLEAN :
         /\ tfiles' = IF touchError THEN tfiles ELSE TouchMovFiles(tfiles, now)
         /\ now' = now + 1
         /\ hist' = RefreshError(touchError, "touch")
         /\ Finish("true", "installed")
    /\ UNCHANGED <<dirState, backups, videoOk, backupRootOk, attempts, list,
                   target, completed>>
    /\ UNCHANGED <<fmt, util, convVars, perm, host>>

-----------------------------------------------------------------------------
(* convertToMov and the methods it awaits *)

\* a limit on the ffmpeg transcodes one conversion may start
MaxProcs == 3

\* CONFIG.WALLPAPER_SETTINGS.minRecommendedDuration
minRecommendedDuration == 60

Durations == {Num(45), Num(59), Num(60), Num(200), NaN}

\* faulty variant: a duration equal to the minimum counts as too short
LessOrEqual(a, b) == ~a.nan /\ a.val <= b

\* a < b of JavaScript numbers (false when a is NaN)
LessThan(a, b) == ~a.nan /\ a.val < b

\* bytes of a file ffmpeg wrote: none, or some
SizeWritten(wrote) == IF wrote = "empty" THEN 0 ELSE 50

\* exit codes of ffmpeg delivered with 'close'
ExitCodes == {0, 1, 2, 69}

NoProcs == <<>>

\* the transcode subprocess of one call of convertWithHEVC and the promise
\* the call returned; parent is the call whose resolve/reject it is wired to
NewProc(useFallback, parent) ==
    [fallback |-> useFallback, events |-> <<>>, promise |-> "pending",
     parent |-> parent]

ErrorEvent(vt) == [kind |-> "error", code |-> 0, videotoolbox |-> vt, outExists |-> FALSE]

CloseEvent(code, exists) ==
    [kind |-> "close", code |-> code, videotoolbox |-> FALSE, outExists |-> exists]

Emitted(p, kind) == \E k \in 1..Len(p.events) : p.events[k].kind = kind

\* resolve or reject of call i: the first settlement counts, and it is
\* passed on to the call that started call i (.then(resolve).catch(reject))
RECURSIVE Settle(_, _, _)
Settle(ps, i, value) ==
    IF i = 0 \/ ps[i].promise # "pending" THEN ps
    ELSE Settle([ps EXCEPT ![i].promise = value], ps[i].parent, value)

\* faulty variant: the software attempt falls back again
FallbackOnCloseAlways(useFallback, code) == code = 1 \/ code = 69

\* the test of the 'close' handler: hardware failed, software not tried yet
FallbackOnClose(useFallback, code) == ~useFallback /\ (code = 1 \/ code = 69)

\* faulty variant: every process error of the hardware attempt falls back
FallbackOnErrorAlways(useFallback, videotoolbox) == ~useFallback

\* the test of the 'error' handler: error.message.includes('videotoolbox')
FallbackOnError(useFallback, videotoolbox) == ~useFallback /\ videotoolbox

\* faulty variant: the software transcode is started twice
StartFallbackTwice(ps, i) ==
    Append(Append(ps, NewProc(TRUE, i)), NewProc(TRUE, i))

\* this.convertWithHEVC(inputPath, outputPath, true) called by handler i
StartFallback(ps, i) == Append(ps, NewProc(TRUE, i))

\* faulty variant: exit code 0 is taken as success without looking for
\* the output file
OnCloseTrustingExitCode(ps, i, code, exists) ==
    LET qs == [ps EXCEPT ![i].events = Append(@, CloseEvent(code, exists))]
    IN  IF code = 0
        THEN Settle(qs, i, "resolved")
        ELSE IF FallbackOnClose(qs[i].fallback, code)
             THEN StartFallback(qs, i)
             ELSE Settle(qs, i, "rejected")

\* the 'close' handler of call i, the event recorded
OnClose(ps, i, code, exists) ==
    LET qs == [ps EXCEPT ![i].events = Append(@, CloseEvent(code, exists))]
    IN  IF code = 0
        THEN IF exists THEN Settle(qs, i, "resolved") ELSE Settle(qs, i, "rejected")
        ELSE IF FallbackOnClose(qs[i].fallback, code)
             THEN StartFallback(qs, i)
             ELSE Settle(qs, i, "rejected")

\* the 'error' handler of call i, the event recorded
OnError(ps, i, vt) ==
    LET qs == [ps EXCEPT ![i].events = Append(@, ErrorEvent(vt))]
    IN  IF FallbackOnError(qs[i].fallback, vt)
        THEN StartFallback(qs, i)
        ELSE Settle(qs, i, "rejected")

\* the ways the unlinkSync calls of cleanupSourceFile end
UnlinkOutcomes == {"ok", "eperm_then_ok", "eperm_twice", "other"}

\* faulty variant: the size of the converted file is not compared
SourceAfterCleanupNoSizeCheck(s, o, unlinked) ==
    IF ~o.exists THEN s
    ELSE IF ~s.exists THEN s
    ELSE IF ToLowerCase(s.ext) = <<"m","p","4">>
         THEN IF unlinked \in {"ok", "eperm_then_ok"}
              THEN [s EXCEPT !.exists = FALSE]
              ELSE s
         ELSE s

\* cleanupSourceFile(sourcePath, convertedPath): the source file afterwards.
\* unlinked: the outcome of the unlinkSync calls ("ok", "eperm_then_ok",
\* "eperm_twice", "other")
SourceAfterCleanup(s, o, unlinked) ==
    IF ~o.exists THEN s
    ELSE IF ~s.exists THEN s
    ELSE IF o.size * 10 < s.size THEN s
    ELSE IF ToLowerCase(s.ext) = <<"m","p","4">>
         THEN IF unlinked \in {"ok", "eperm_then_ok"}
              THEN [s EXCEPT !.exists = FALSE]
              ELSE s
         ELSE s

\* faulty variant: the source is cleaned up whether or not the transcode
\* succeeded
AfterTranscodeCleanupAlways(ps) ==
    /\ \E unlinked \in UnlinkOutcomes :
         src' = SourceAfterCleanup(src, out', unlinked)
    /\ cresult' = IF ps[1].promise = "resolved" THEN "returned" ELSE "threw"
    /\ cpc' = "done"
    /\ UNCHANGED <<extended, extendedSize, chist>>

\* what convertToMov does once convertWithHEVC has settled: the clean-up of
\* the extended file and of the source and the return, or the throw
AfterTranscode(ps) ==
    IF ps[1].promise = "resolved"
    THEN /\ \E removed \in BOOLEAN :
              /\ extended' = IF processed = "extended" /\ removed THEN FALSE ELSE extended
              /\ extendedSize' = IF extended' THEN extendedSize ELSE 0
         /\ \E unlinked \in UnlinkOutcomes :
              src' = SourceAfterCleanup(src, out', unlinked)
         /\ chist' = [chist EXCEPT !.cleanup = <<[s |-> src, o |-> out']>>]
         /\ cresult' = "returned"
         /\ cpc' = "done"
    ELSE /\ cresult' = "threw"
         /\ cpc' = "done"
         /\ UNCHANGED <<src, extended, extendedSize, chist>>

\* what the conversion observes of itself: the files at the start, the
\* call and the end of extendVideo, the arguments of cleanupSourceFile
ChistInit(s, e) ==
    [src0 |-> s, extended0 |-> e, extendCalled |-> FALSE, extendCodes |-> <<>>,
     extendExists |-> FALSE, extendSize |-> 0, extendResolved |-> FALSE,
     cleanup |-> <<>>]

ConvIdle ==
    /\ cpc = "idle"
    /\ src = [exists |-> FALSE, ext |-> <<>>, size |-> 0]
    /\ out = [exists |-> FALSE, size |-> 0]
    /\ extended = FALSE
    /\ duration = NaN
    /\ processed = "input"
    /\ procs = NoProcs
    /\ cresult = "none"
    /\ extendedSize = 0
    /\ dresult = "none"
    /\ chist = ChistInit(src, extended)

WMIdle ==
    /\ dirState = "ok"
    /\ tfiles = <<>>
    /\ backups = {}
    /\ now = 0
    /\ videoOk = FALSE
    /\ backupRootOk = FALSE
    /\ pc = "idle"
    /\ attempts = 0
    /\ list = <<>>
    /\ target = NoAsset
    /\ completed = 0
    /\ result = "none"
    /\ outcome = "idle"
    /\ hist = HistInit(<<>>, {})

\* size of an extended file a former run left behind
StaleExtendedSize == SizeWritten("full")

SourceExts == {<<"m","p","4">>, <<"M","P","4">>, <<"w","e","b","m">>}

ConvInit ==
    /\ cpc = "start"
    /\ \E e \in SourceExts, z \in {95, 100} :
         src = [exists |-> TRUE, ext |-> e, size |-> z]
    /\ out \in {[exists |-> FALSE, size |-> 0], [exists |-> TRUE, size |-> 10]}
    /\ extended \in BOOLEAN
    /\ duration = NaN
    /\ processed = "input"
    /\ procs = NoProcs
    /\ cresult = "none"
    /\ extendedSize = (IF extended THEN StaleExtendedSize ELSE 0)
    /\ dresult = "none"
    /\ chist = ChistInit(src, extended)

\* convertToMov: the output exists already, or ffprobe is started
ConvStart ==
    /\ Alive
    /\ cpc = "start"
    /\ IF out.exists
       THEN cpc' = "done" /\ cresult' = "returned"
       ELSE cpc' = "probe" /\ UNCHANGED cresult
    /\ UNCHANGED <<src, out, extended, duration, processed, procs>>
    /\ UNCHANGED <<extendedSize, dresult, chist>>
    /\ UNCHANGED <<fmt, util, wmVars, perm, host>>

\* getVideoDuration settles; convertToMov compares the duration and starts
\* extendVideo (its own ffprobe) or the hardware transcode
ProbeSettled ==
    /\ Alive
    /\ cpc = "probe"
    /\ \/ /\ cpc' = "done"
          /\ cresult' = "threw"
          /\ UNCHANGED <<duration, procs, chist>>
       \/ \E d \in Durations :
            /\ duration' = d
            /\ IF LessThan(d, minRecommendedDuration)
               THEN /\ cpc' = "extend_probe"
                    /\ chist' = [chist EXCEPT !.extendCalled = TRUE]
                    /\ UNCHANGED procs
               ELSE /\ cpc' = "transcode"
                    /\ procs' = <<NewProc(FALSE, 0)>>
                    /\ UNCHANGED chist
            /\ UNCHANGED cresult
    /\ UNCHANGED <<src, out, extended, processed, extendedSize, dresult>>
    /\ UNCHANGED <<fmt, util, wmVars, perm, host>>

\* extendVideo: its getVideoDuration settles; ffmpeg -stream_loop is started
ExtendProbeSettled ==
    /\ Alive
    /\ cpc = "extend_probe"
    /\ \/ cpc' = "done" /\ cresult' = "threw"
       \/ cpc' = "extend" /\ UNCHANGED cresult
    /\ UNCHANGED <<src, out, extended, duration, processed, procs>>
    /\ UNCHANGED <<extendedSize, dresult, chist>>
    /\ UNCHANGED <<fmt, util, wmVars, perm, host>>

\* what the looping ffmpeg leaves at <name>_extended.mp4 (-y overwrites)
ExtendWrites == {"no", "empty", "full"}

\* the 'close' handler of extendVideo: code === 0 and fs.existsSync(outputPath)
ExtendResolves(code, exists) == code = 0 /\ exists

\* extendVideo: the first of 'close' and 'error' of the looping ffmpeg;
\* convertToMov starts the hardware transcode of the extended file
ExtendSettled ==
    /\ Alive
    /\ cpc = "extend"
    /\ \E code \in ExitCodes \cup {SpawnFailedCode}, wrote \in ExtendWrites :
         /\ extended' = (extended \/ (wrote # "no" /\ code # SpawnFailedCode))
         /\ extendedSize' = IF wrote # "no" /\ code # SpawnFailedCode
                            THEN SizeWritten(wrote)
                            ELSE extendedSize
         /\ chist' = [chist EXCEPT !.extendCodes = <<code>>,
                                   !.extendExists = extended',
                                   !.extendSize = extendedSize',
                                   !.extendResolved = ExtendResolves(code, extended')]
         /\ IF ExtendResolves(code, extended')
            THEN /\ processed' = "extended"
                 /\ cpc' = "transcode"
                 /\ procs' = <<NewProc(FALSE, 0)>>
                 /\ UNCHANGED cresult
            ELSE /\ cpc' = "done"
                 /\ cresult' = "threw"
                 /\ UNCHANGED <<processed, procs>>
    /\ UNCHANGED <<src, out, duration, dresult>>
    /\ UNCHANGED <<fmt, util, wmVars, perm, host>>

\* the continuation of convertToMov when handler of call i has run
ContinueAfter(ps) ==
    IF cpc = "transcode" /\ ps[1].promise # "pending"
    THEN AfterTranscode(ps)
    ELSE UNCHANGED <<cpc, cresult, src, extended, extendedSize, chist>>

\* the 'close' handler calls this.fixFilePermissions(outputPath), without
\* waiting for it, when the transcode ended with 0 and the output exists
PermissionFixCalled(code, exists) == code = 0 /\ exists

\* 'error' of the ffmpeg of call i (the spawn failed)
ProcError ==
    /\ Alive
    /\ \E i \in 1..Len(procs), vt \in BOOLEAN :
         /\ procs[i].events = <<>>
         /\ Len(procs) < MaxProcs
         /\ procs' = OnError(procs, i, vt)
         /\ out' = out
         /\ ContinueAfter(procs')
    /\ UNCHANGED <<duration, processed, dresult>>
    /\ UNCHANGED <<fmt, util, wmVars, perm, host>>

\* 'close' of the ffmpeg of call i: after a failed spawn with the negative
\* errno, else with the exit code of ffmpeg, which may have written the
\* output file
ProcClose ==
    /\ Alive
    /\ \E i \in 1..Len(procs) :
         /\ ~Emitted(procs[i], "close")
         /\ Len(procs) < MaxProcs
         /\ \/ /\ Emitted(procs[i], "error")
               /\ out' = out
               /\ procs' = OnClose(procs, i, SpawnFailedCode, out.exists)
               /\ UNCHANGED perm
            \/ /\ ~Emitted(procs[i], "error")
               /\ \E code \in ExitCodes, wrote \in {"no", "small", "full"} :
                    /\ out' = IF wrote = "no" THEN out
                              ELSE [exists |-> TRUE,
                                    size |-> IF wrote = "small" THEN 9 ELSE 10]
                    /\ procs' = OnClose(procs, i, code, out'.exists)
                    /\ IF PermissionFixCalled(code, out'.exists)
                       THEN \E e \in RunEnvs, spawnThrew \in BOOLEAN, chmodOk \in BOOLEAN :
                              perm' = CalledOn("output", e, spawnThrew, chmodOk)
                       ELSE UNCHANGED perm
         /\ ContinueAfter(procs')
    /\ UNCHANGED <<duration, processed, dresult>>
    /\ UNCHANGED <<fmt, util, wmVars, host>>

\* performDownload: the await of convertToMov returns the path, or the
\* catch logs the error and throws it again
PerformDownloadSettled ==
    /\ Alive
    /\ cpc = "done"
    /\ dresult = "none"
    /\ dresult' = IF cresult = "returned" THEN "returned" ELSE "threw"
    /\ UNCHANGED <<cpc, src, out, extended, duration, processed, procs, cresult,
                   extendedSize, chist>>
    /\ UNCHANGED <<fmt, util, wmVars, perm, host>>

\* sizes of the files handed to cleanupSourceFile
CleanupSourceSizes == {0, 10, 95, 100}

CleanupOutputSizes == {0, 9, 10}

\* a call of cleanupSourceFile on its own: any source path, any converted path
CleanupInit ==
    /\ cpc = "cleanup"
    /\ \/ \E e \in SourceExts, z \in CleanupSourceSizes :
            src = [exists |-> TRUE, ext |-> e, size |-> z]
       \/ \E e \in SourceExts :
            src = [exists |-> FALSE, ext |-> e, size |-> 0]
    /\ \/ \E z \in CleanupOutputSizes : out = [exists |-> TRUE, size |-> z]
       \/ out = [exists |-> FALSE, size |-> 0]
    /\ extended = FALSE
    /\ duration = NaN
    /\ processed = "input"
    /\ procs = NoProcs
    /\ cresult = "none"
    /\ extendedSize = 0
    /\ dresult = "none"
    /\ chist = ChistInit(src, extended)

\* cleanupSourceFile(sourcePath, convertedPath) runs to its end
CleanupSourceFile ==
    /\ cpc = "cleanup"
    /\ \E unlinked \in UnlinkOutcomes :
         src' = SourceAfterCleanup(src, out, unlinked)
    /\ chist' = [chist EXCEPT !.cleanup = <<[s |-> src, o |-> out]>>]
    /\ cpc' = "cleaned"
    /\ UNCHANGED <<out, extended, duration, processed, procs, cresult,
                   extendedSize, dresult>>
    /\ UNCHANGED <<fmt, util, wmVars, perm, host>>

\* duration of the file handed to convertWithHEVC: the looping ffmpeg stops
\* at minDuration (-t), the source keeps the probed duration
TranscoderInputDuration ==
    IF processed = "extended" THEN Num(minRecommendedDuration) ELSE duration

-----------------------------------------------------------------------------
(* run() of index.js and performDownload *)

\* downloadSettings.retryAttempts
DownloadRetryAttempts == 3

\* downloadSettings.mergeOutputFormat: the extension of the downloaded file
MergeOutputFormat == <<"m", "p", "4">>

\* the environments the program is started in: under sudo with both
\* tools, without privileges, and with one or both tools missing
HostEnvironments ==
    { SudoEnvironment,
      HostEnvironment(FALSE, FALSE, TRUE, TRUE),
      HostEnvironment(FALSE, FALSE, FALSE, FALSE),
      HostEnvironment(TRUE, TRUE, FALSE, TRUE),
      HostEnvironment(TRUE, TRUE, TRUE, FALSE),
      HostEnvironment(TRUE, FALSE, FALSE, FALSE),
      HostEnvironment(FALSE, TRUE, TRUE, FALSE) }

\* the files at outputPath and at its .mov path before the program starts
HostInit ==
    /\ cpc = "idle"
    /\ \/ src = [exists |-> FALSE, ext |-> <<>>, size |-> 0]
       \/ \E z \in {95, 100} : src = [exists |-> TRUE, ext |-> MergeOutputFormat, size |-> z]
    /\ out \in {[exists |-> FALSE, size |-> 0], [exists |-> TRUE, size |-> 10]}
    /\ extended \in BOOLEAN
    /\ duration = NaN
    /\ processed = "input"
    /\ procs = NoProcs
    /\ cresult = "none"
    /\ extendedSize = (IF extended THEN StaleExtendedSize ELSE 0)
    /\ dresult = "none"
    /\ chist = ChistInit(src, extended)
    /\ \E flag \in BOOLEAN, e \in HostEnvironments :
         host = [HostAt("launch", flag, FALSE)
                    EXCEPT !.files0 = [mov |-> out.exists, source |-> src.exists],
                           !.env = e]

\* node index.js [--cleanup]: new MacOSLiveWallpaperSetter().run(), which
\* shows the header, registers the shutdown handlers and asks for the URL.
\* process.argv is not read.
Launch ==
    /\ Alive
    /\ host.pc = "launch"
    /\ host' = [host EXCEPT !.pc = "url",
                            !.shutdownHandlers = TRUE,
                            !.started = @ \cup {"pipeline", "url"}]
    /\ UNCHANGED <<fmt, util, wmVars, convVars, perm>>

\* getYouTubeUrl resolves (it asks again until the URL is valid);
\* performFullCheck is started
UrlEntered ==
    /\ Alive
    /\ host.pc = "url"
    /\ host' = [host EXCEPT !.pc = "deps", !.started = @ \cup {"deps"}]
    /\ UNCHANGED <<fmt, util, wmVars, convVars, perm>>

\* checkSudoPrivileges
CheckSudoPrivileges(env) == env.isRoot \/ env.sudoUser

\* validateEnvironment: no dependency of CONFIG.DEPENDENCIES is missing
AllDependenciesAvailable(env) == env.ytdlp /\ env.ffmpeg

\* faulty variant: the result of the dependency check is not looked at
PerformFullCheckSudoOnly(env) ==
    IF ~CheckSudoPrivileges(env) THEN "no_sudo" ELSE "ok"

\* performFullCheck: the privileges first (promptForSudo throws), then the
\* dependencies (validateEnvironment throws)
PerformFullCheck(env) ==
    IF ~CheckSudoPrivileges(env) THEN "no_sudo"
    ELSE IF ~AllDependenciesAvailable(env) THEN "missing"
    ELSE "ok"

\* performFullCheck settles: it throws without sudo privileges or with a
\* missing dependency, and run() hands the error to handleError
DependenciesChecked ==
    /\ Alive
    /\ host.pc = "deps"
    /\ LET r == PerformFullCheck(host.env) IN
         host' = IF r = "ok"
                 THEN [host EXCEPT !.pc = "analyze", !.started = @ \cup {"analyze"}]
                 ELSE HandleError(host, r, RunningSubprocesses)
    /\ UNCHANGED <<fmt, util, wmVars, convVars, perm>>

\* analyzeVideo settles: it returns the analysis or throws
AnalyzeSettled ==
    /\ Alive
    /\ host.pc = "analyze"
    /\ \E ok \in BOOLEAN :
         host' = IF ok
                 THEN [host EXCEPT !.pc = "check_existing"]
                 ELSE HandleError(host, "analysis", RunningSubprocesses)
    /\ UNCHANGED <<fmt, util, wmVars, convVars, perm>>

\* faulty variant: only the .mov file is looked for
CheckExistingVideoMovOnly(movExists, sourceExists) ==
    IF movExists THEN "mov" ELSE "none"

\* checkExistingVideo(outputPath): the .mov file first, then the source
CheckExistingVideo(movExists, sourceExists) ==
    IF movExists THEN "mov"
    ELSE IF sourceExists THEN "source"
    ELSE "none"

\* downloadVideo: yt-dlp is spawned, currentProcess and isDownloading are set
StartDownload(h) ==
    [h EXCEPT !.pc = "downloading",
              !.downloads = Append(@, <<>>),
              !.currentProcess = Len(h.downloads) + 1,
              !.isDownloading = TRUE]

\* the handlers of 'close' and 'error' of yt-dlp clear the two fields
DownloadEvent(h, kind) ==
    [h EXCEPT !.downloads[Len(h.downloads)] = Append(@, kind),
              !.isDownloading = FALSE,
              !.currentProcess = 0]

\* performDownload up to its first await: the cleanup handlers are
\* registered, the existing files decide between return, conversion and
\* download
PerformDownloadStart ==
    /\ Alive
    /\ host.pc = "check_existing"
    /\ LET h == [host EXCEPT !.cleanupHandlers = TRUE,
                             !.started = @ \cup {"download"}]
           found == CheckExistingVideo(out.exists, src.exists)
       IN  CASE found = "mov" ->
                  /\ host' = [h EXCEPT !.pc = "perform"]
                  /\ dresult' = "returned"
                  /\ UNCHANGED <<cpc, chist>>
             [] found = "source" ->
                  /\ host' = [h EXCEPT !.pc = "perform"]
                  /\ cpc' = "start"
                  /\ UNCHANGED <<dresult, chist>>
             [] OTHER ->
                  /\ host' = StartDownload(h)
                  /\ UNCHANGED <<cpc, dresult, chist>>
    /\ UNCHANGED <<src, out, extended, duration, processed, procs, cresult,
                   extendedSize>>
    /\ UNCHANGED <<fmt, util, wmVars, perm>>

\* faulty variant: the loop runs once more than retryAttempts
AfterRejectedAttemptOnceMore(h) ==
    IF Len(h.downloads) = DownloadRetryAttempts + 1
    THEN /\ host' = [h EXCEPT !.pc = "perform"]
         /\ dresult' = "threw"
    ELSE /\ host' = [h EXCEPT !.pc = "retry_wait"]
         /\ UNCHANGED dresult

\* downloadWithRetry after attempt n was rejected: the last attempt throws,
\* an earlier one waits two seconds
AfterRejectedAttempt(h) ==
    IF Len(h.downloads) = DownloadRetryAttempts
    THEN /\ host' = [h EXCEPT !.pc = "perform"]
         /\ dresult' = "threw"
    ELSE /\ host' = [h EXCEPT !.pc = "retry_wait"]
         /\ UNCHANGED dresult

\* 'error' of yt-dlp (the spawn failed)
DownloadError ==
    /\ Alive
    /\ host.pc = "downloading"
    /\ AfterRejectedAttempt(DownloadEvent(host, "error"))
    /\ UNCHANGED <<cpc, src, out, extended, duration, processed, procs, cresult,
                   extendedSize, chist>>
    /\ UNCHANGED <<fmt, util, wmVars, perm>>

\* 'close' of yt-dlp: with code 0 downloadVideo resolves with the path of
\* the file and performDownload calls convertToMov
DownloadClose ==
    /\ Alive
    /\ host.pc = "downloading"
    /\ \E code \in {0, 1} :
         IF code = 0
         THEN /\ host' = [DownloadEvent(host, "close") EXCEPT !.pc = "perform"]
              /\ \E z \in {95, 100} :
                   src' = [exists |-> TRUE, ext |-> MergeOutputFormat, size |-> z]
              /\ cpc' = "start"
              /\ chist' = ChistInit(src', extended)
              /\ UNCHANGED dresult
         ELSE /\ AfterRejectedAttempt(DownloadEvent(host, "close"))
              /\ UNCHANGED <<cpc, src, chist>>
    /\ UNCHANGED <<out, extended, duration, processed, procs, cresult, extendedSize>>
    /\ UNCHANGED <<fmt, util, wmVars, perm>>

\* 'close' of a yt-dlp that failed to spawn follows its 'error'
DownloadCloseAfterError ==
    /\ Alive
    /\ host.pc = "retry_wait"
    /\ host.downloads[Len(host.downloads)] = <<"error">>
    /\ host' = [DownloadEvent(host, "close") EXCEPT !.pc = "retry_wait"]
    /\ UNCHANGED <<fmt, util, wmVars, convVars, perm>>

\* the two seconds before the next attempt are over
RetryWaitDone ==
    /\ Alive
    /\ host.pc = "retry_wait"
    /\ host.downloads[Len(host.downloads)] # <<"error">>
    /\ host' = StartDownload(host)
    /\ UNCHANGED <<fmt, util, wmVars, convVars, perm>>

\* run() continues after performDownload: setupWallpaper is called, or the
\* error goes to handleError
RunAfterPerformDownload ==
    /\ Alive
    /\ host.pc = "perform"
    /\ dresult # "none"
    /\ host' = IF dresult = "returned"
               THEN [host EXCEPT !.pc = "setup", !.started = @ \cup {"setup"}]
               ELSE HandleError(host, "download", RunningSubprocesses)
    /\ UNCHANGED <<fmt, util, wmVars, convVars, perm>>

\* the process waits for an event: no continuation of a settled promise is
\* due (signals are delivered between the turns of the event loop)
AtAwait ==
    /\ ~(cpc = "done" /\ dresult = "none")
    /\ ~(host.pc = "perform" /\ dresult # "none")
    /\ host.pc \notin {"launch", "check_existing", "setup"}

\* SIGINT or SIGTERM is delivered to the process
Interrupt ==
    /\ Alive
    /\ host.shutdownHandlers
    /\ AtAwait
    /\ host' = GracefulShutdown(host, RunningSubprocesses)
    /\ UNCHANGED <<fmt, util, wmVars, convVars, perm>>

\* run() continues after setupWallpaper: the summary is shown, run() ends
\* and the process ends when nothing is left to wait for (the 'exit'
\* listeners run then as well)
RunAfterSetupWallpaper ==
    /\ Alive
    /\ host.pc = "setup"
    /\ pc = "done"
    /\ host' = ProcessExit([host EXCEPT !.started = @ \cup {"summary"}], 0,
                           RunningSubprocesses)
    /\ UNCHANGED <<fmt, util, wmVars, convVars, perm>>

ConvNext ==
    \/ ConvStart
    \/ ProbeSettled
    \/ ExtendProbeSettled
    \/ ExtendSettled
    \/ ProcError
    \/ ProcClose
    \/ ChownError
    \/ ChownClose
    \/ PerformDownloadSettled

Init == WMInit /\ ConvIdle /\ PermIdle /\ HostAtSetup /\ UtilIdle /\ FmtIdle

InitConv == WMIdle /\ ConvInit /\ PermIdle /\ HostAtConvert /\ UtilIdle /\ FmtIdle

Next ==
    \/ CheckCustomerDirectory
    \/ BranchOnInventory
    \/ OpenSettingsDone
    \/ WaitPoll
    \/ SleepDone
    \/ UserSeeds
    \/ SelectAnswer
    \/ ConfirmAnswer
    \/ CreateBackup
    \/ ChownError
    \/ ChownClose
    \/ BackupPermissionsSettled
    \/ InstallCopy
    \/ ExternalDelete
    \/ InstallVerify
    \/ DaemonCommandDone
    \/ RefreshScriptDone
    \/ TouchDone
    \/ RunAfterSetupWallpaper

Spec == Init /\ [][Next]_vars

\* a limit on the files of the target directory while the tool waits
MaxWaitFiles == 2

\* waitForWallpaperSetup alone, called on an existing target directory
InitWait ==
    /\ dirState = "ok"
    /\ \E P \in {Q \in SUBSET Names : Cardinality(Q) <= MaxWaitFiles},
          order \in {"asc", "desc"} :
          tfiles = [n \in P |-> [content |-> OrigContent(n),
                                 mtime   |-> InitialMtime(order, n)]]
    /\ backups = {}
    /\ now = MaxFiles + 1
    /\ videoOk = TRUE
    /\ backupRootOk = TRUE
    /\ pc = "wait"
    /\ attempts = 0
    /\ list = <<>>
    /\ target = NoAsset
    /\ completed = 0
    /\ result = "none"
    /\ outcome = "running"
    /\ hist = [HistInit(tfiles, backups) EXCEPT !.waitEntered = TRUE]
    /\ ConvIdle /\ PermIdle /\ HostAtSetup /\ UtilIdle /\ FmtIdle

\* the user downloads a wallpaper while waitForWallpaperSetup runs
UserSeedsWhileWaiting ==
    /\ Cardinality(DOMAIN tfiles) < MaxWaitFiles
    /\ UserSeeds

WaitNext ==
    \/ WaitPoll
    \/ SleepDone
    \/ UserSeedsWhileWaiting

\* the scan follows the loop test at once, the timer of the sleep fires
SpecWait == InitWait /\ [][WaitNext]_vars /\ WF_vars(WaitPoll) /\ WF_vars(SleepDone)

SpecConv == InitConv /\ [][ConvNext]_vars

InitCleanup == WMIdle /\ CleanupInit /\ PermIdle /\ HostIdle /\ UtilIdle /\ FmtIdle

InitPerm == WMIdle /\ ConvIdle /\ PermInit /\ HostIdle /\ UtilIdle /\ FmtIdle

PermNext ==
    \/ PermStart
    \/ ChownError
    \/ ChownClose

SpecPerm == InitPerm /\ [][PermNext]_vars

\* the subprocesses that were started and have not ended: the osascript of
\* openWallpaperSettings, the launchctl commands (both are started before
\* either callback), the osascript and the touch of forceWallpaperRefresh,
\* ffprobe, the looping ffmpeg, the transcodes, the chown
OutstandingSubprocesses ==
      (IF pc \in {"open_settings", "osascript", "touch"} THEN 1 ELSE 0)
    + (IF pc = "daemon" THEN 2 - completed ELSE 0)
    + (IF cpc \in {"probe", "extend_probe", "extend"} THEN 1 ELSE 0)
    + Cardinality({i \in 1..Len(procs) : procs[i].events = <<>>})
    + (IF perm.pc = "chown" /\ perm.events = <<>> THEN 1 ELSE 0)

\* a run of setupWallpaper, or a run of convertToMov
InitSteps == Init \/ InitConv

NextSteps == Next \/ ConvNext

SpecSteps == InitSteps /\ [][NextSteps]_vars

CleanupNext == CleanupSourceFile

SpecCleanup == InitCleanup /\ [][CleanupNext]_vars

\* run() from the start of the program to the call of setupWallpaper
InitHost == WMIdle /\ HostInit /\ PermIdle /\ UtilIdle /\ FmtIdle

HostNext ==
    \/ Launch
    \/ UrlEntered
    \/ DependenciesChecked
    \/ AnalyzeSettled
    \/ PerformDownloadStart
    \/ DownloadError
    \/ DownloadClose
    \/ DownloadCloseAfterError
    \/ RetryWaitDone
    \/ ConvStart
    \/ ProbeSettled
    \/ ExtendProbeSettled
    \/ ExtendSettled
    \/ ProcError
    \/ ProcClose
    \/ ChownError
    \/ ChownClose
    \/ PerformDownloadSettled
    \/ RunAfterPerformDownload
    \/ Interrupt

SpecHost == InitHost /\ [][HostNext]_vars

-----------------------------------------------------------------------------
(* getExistingWallpapers on its own *)

\* sizes and modification times of the entries of the scanned directory
ScanSizes == {0, 7}

ScanTimes == {1, 2}

\* a directory entry: what fs.statSync reports for it, or statOk = FALSE
\* when statSync throws (the entry is a link to nothing, or it was removed
\* after readdirSync)
ScanEntries(n) ==
    [content : {OrigContent(n)}, mtime : ScanTimes, size : ScanSizes,
     birthtime : {1}, statOk : BOOLEAN]

\* the element of the list for the file with name n
WallpaperEntry(n, f) ==
    [name |-> n, path |-> <<"targetDir", n>>, size |-> f[n].size,
     created |-> f[n].birthtime, modified |-> f[n].mtime]

\* what the call returns: [] when the directory is missing, [] from the
\* catch when readdirSync or a statSync throws, else the sorted entries
ExistingWallpaperEntries(ds, f) ==
    IF \/ ds = "unreadable"
       \/ ds = "ok" /\ \E n \in DOMAIN f : IsVideoName(n) /\ ~f[n].statOk
    THEN <<>>
    ELSE LET names == getExistingWallpapers(ds, f)
         IN  [i \in 1..Len(names) |-> WallpaperEntry(names[i], f)]

ScanInit ==
    /\ dirState \in {"noTarget", "unreadable", "ok"}
    /\ \E P \in SUBSET Names : tfiles \in [P -> UNION {ScanEntries(n) : n \in Names}]
    /\ \A n \in DOMAIN tfiles : tfiles[n] \in ScanEntries(n)
    /\ backups = {}
    /\ now = 0
    /\ videoOk = FALSE
    /\ backupRootOk = FALSE
    /\ pc = "scan"
    /\ attempts = 0
    /\ list = <<>>
    /\ target = NoAsset
    /\ completed = 0
    /\ result = "none"
    /\ outcome = "idle"
    /\ hist = HistInit(<<>>, {})

\* getExistingWallpapers() is called
ScanDirectory ==
    /\ pc = "scan"
    /\ list' = ExistingWallpaperEntries(dirState, tfiles)
    /\ pc' = "scanned"
    /\ UNCHANGED <<dirState, tfiles, backups, now, videoOk, backupRootOk,
                   attempts, target, completed, result, outcome, hist>>
    /\ UNCHANGED <<fmt, util, convVars, perm, host>>

InitScan == ScanInit /\ ConvIdle /\ PermIdle /\ HostIdle /\ UtilIdle /\ FmtIdle

ScanNext == ScanDirectory

SpecScan == InitScan /\ [][ScanNext]_vars

\* a run of cleanup.js
InitUtil == WMIdle /\ ConvIdle /\ PermIdle /\ HostIdle /\ UtilInit /\ FmtIdle

UtilNext ==
    \/ UtilScan
    \/ UtilChoice
    \/ UtilConfirm
    \/ UtilFix
    \/ UtilDelete

SpecUtil == InitUtil /\ [][UtilNext]_vars


\* a call of findBestVideoFormat
InitFormat == WMIdle /\ ConvIdle /\ PermIdle /\ HostIdle /\ UtilIdle /\ FormatInit

FormatNext == FindBestVideoFormatCall

SpecFormat == InitFormat /\ [][FormatNext]_vars

-----------------------------------------------------------------------------
(* Properties of setupWallpaper (specification Spec) *)

Scanned == {list[i] : i \in 1..Len(list)}

BackupsOfThisRun == backups \ hist.backups0

\* C1: whenever the backup copy fails, the replacement does not proceed:
\* installWallpaper is not executed and the target asset has the same
\* bytes and modification time when setupWallpaper has returned.
C1_NoInstallAfterFailedBackup ==
    hist.backupFailed =>
        /\ hist.installCalls = <<>>
        /\ (pc = "done" /\ target \in DOMAIN hist.dirAtBackup) =>
              /\ target \in DOMAIN tfiles
              /\ tfiles[target] = hist.dirAtBackup[target]

\* C2: in every execution in which installWallpaper succeeds, a backup copy
\* of the replaced asset (its base name, a time stamp, its bytes) existed
\* when the content of the target file was overwritten.
C2_BackupExistsAtOverwrite ==
    result = "true" =>
        \A n \in hist.written :
            \E b \in BackupsOfThisRun :
                /\ b.base = BaseOf(n)
                /\ b.ts < hist.writeTime
                /\ n \in DOMAIN hist.dirPre
                /\ b.content = hist.dirPre[n].content

\* C3: installWallpaper writes only to the path of the asset name handed to
\* it, that name is one returned by the inventory scan, and after a
\* successful install the target directory holds the same file names as
\* before the install, all other files unchanged.
C3_InstallKeepsFilenames ==
    /\ hist.written \subseteq Scanned
    /\ hist.written \subseteq {hist.installCalls[i] : i \in 1..Len(hist.installCalls)}
    /\ result = "true" =>
          /\ DOMAIN tfiles = DOMAIN hist.dirPre
          /\ \A n \in DOMAIN tfiles \ hist.written :
                tfiles[n].content = hist.dirPre[n].content
          /\ \A n \in hist.written : tfiles[n].content = NewContent

C3_Witness ==
    /\ result = "true"
    /\ Cardinality(DOMAIN tfiles) >= 2
    /\ \E n \in hist.written : hist.dirPre[n].content # NewContent

NothingDone ==
    /\ hist.backupCalls = <<>>
    /\ hist.installCalls = <<>>
    /\ backups = hist.backups0
    /\ tfiles = hist.dir0

\* C4 as stated: any answer other than 'y' or 'yes' at the confirmation
\* prompt, or the cancel token at the selection prompt, ends setupWallpaper
\* with no backup created and no asset modified.
C4_AsStated ==
    (\/ hist.confirmAnswer \notin {NoAnswer, <<"y">>, <<"y","e","s">>}
     \/ hist.cancelTyped)
        => NothingDone

\* C4 amended: any answer that is not 'y' or 'yes' in some letter case at
\* the confirmation prompt, or the cancel token at the selection prompt,
\* ends setupWallpaper (returning false) with no backup created and no asset
\* modified.
C4_CancelChangesNothing ==
    (\/ /\ hist.confirmAnswer # NoAnswer
        /\ ToLowerCase(hist.confirmAnswer) \notin {<<"y">>, <<"y","e","s">>}
     \/ hist.cancelTyped)
        => /\ NothingDone
           /\ pc = "done"
           /\ result = "false"

C4_Witness ==
    /\ pc = "done"
    /\ hist.confirmAnswer = <<"n">>
    /\ hist.n0 >= 2
    /\ backupRootOk

ValidNumber(answer, n) ==
    /\ ~ParseInt(answer).nan
    /\ ParseInt(answer).val >= 1
    /\ ParseInt(answer).val <= n

\* C5: with 0 assets setupWallpaper enters the seed-polling wait (and shows
\* no prompt); with 1 asset it goes to the confirmation directly and the
\* selection prompt is never shown; with 2 or more assets the confirmation
\* is reached only after a valid numeric selection in the selection prompt.
C5_BranchOnCardinality ==
    /\ hist.n0 = 0 =>
          /\ pc = "open_settings" \/ hist.waitEntered
          /\ ~hist.selectShown /\ ~hist.confirmCalled
    /\ hist.n0 = 1 =>
          /\ hist.confirmCalled
          /\ ~hist.selectShown /\ ~hist.waitEntered
          /\ videoOk => hist.confirmShown
    /\ hist.n0 >= 2 =>
          /\ hist.selectShown /\ ~hist.waitEntered
          /\ hist.confirmCalled => ValidNumber(hist.selectAnswer, hist.n0)
    /\ hist.n0 = -1 => pc \in {"start", "branch", "done"}

C5_Witness ==
    /\ hist.n0 >= 2
    /\ pc = "confirm"
    /\ hist.selectAnswer = <<" ","2">>

MostRecentVideo(f) ==
    {n \in DOMAIN f : /\ IsVideoName(n)
                      /\ \A m \in DOMAIN f : IsVideoName(m) => f[m].mtime <= f[n].mtime}

\* C6: on every path that reaches installation exactly one asset is handed
\* to createBackup and exactly one install is performed, over the name of
\* the asset backed up; with 2 or more assets it is the asset selected, on
\* the empty-directory path the asset the polling detected.
C6_OneAssetHandedOn ==
    /\ Len(hist.backupCalls) <= 1
    /\ Len(hist.installCalls) <= 1
    /\ hist.installCalls # <<>> =>
          /\ hist.backupCalls = hist.installCalls
          /\ hist.installCalls[1] # NoAsset
          /\ hist.n0 >= 2 =>
                /\ ValidNumber(hist.selectAnswer, hist.n0)
                /\ hist.installCalls[1] =
                      getExistingWallpapers("ok", hist.dir0)[ParseInt(hist.selectAnswer).val]
          /\ hist.n0 = 1 =>
                hist.installCalls = getExistingWallpapers("ok", hist.dir0)
          /\ hist.n0 = 0 =>
                /\ hist.installCalls[1] = hist.detected
                /\ hist.installCalls[1] \in MostRecentVideo(hist.dirPre)
    /\ hist.written # {} => Len(hist.installCalls) = 1

C6_Witness ==
    /\ result = "true"
    /\ hist.n0 >= 2
    /\ hist.installCalls # <<getExistingWallpapers("ok", hist.dir0)[1]>>

\* C7: with several assets, the install with its refresh changes the bytes
\* of the selected asset only; every other asset is byte-identical.
C7_OthersByteIdentical ==
    (hist.n0 >= 2 /\ hist.installCalls # <<>>) =>
        \A n \in DOMAIN hist.dir0 \ {hist.installCalls[1]} :
            /\ n \in DOMAIN tfiles
            /\ tfiles[n].content = hist.dir0[n].content

C7_Witness ==
    /\ result = "true"
    /\ hist.n0 >= 2
    /\ tfiles[hist.installCalls[1]].content = NewContent
    /\ \E n \in DOMAIN tfiles \ {hist.installCalls[1]} :
          tfiles[n].mtime # hist.dir0[n].mtime

\* C8: if every polling attempt finds an empty inventory the wait ends in
\* the time-out failure, setupWallpaper returns false, and neither
\* createBackup nor installWallpaper is executed.
C8_SeedTimeoutIsFailure ==
    /\ attempts = retryAttempts =>
          /\ hist.timedOut
          /\ pc = "done"
          /\ result = "false"
          /\ outcome = "threw"
    /\ hist.timedOut =>
          /\ attempts = retryAttempts
          /\ hist.backupCalls = <<>>
          /\ hist.installCalls = <<>>
          /\ backups = hist.backups0
          /\ hist.written = {}

C8_Witness ==
    /\ hist.timedOut
    /\ pc = "done"
    /\ DOMAIN tfiles # {}

-----------------------------------------------------------------------------
(* Properties of convertToMov (specifications SpecConv, SpecCleanup) *)

Calls == 1..Len(procs)

StartedBy(i) == {j \in Calls : procs[j].parent = i}

SoftwareCalls == {j \in Calls : procs[j].fallback}

FirstEvent(p) == p.events[1]

\* the attempt ended with an exit code and no process error
EndedWithCode(p, codes) ==
    /\ p.events # <<>>
    /\ FirstEvent(p).kind = "close"
    /\ FirstEvent(p).code \in codes

AttemptSucceeded(p) ==
    /\ EndedWithCode(p, {0})
    /\ FirstEvent(p).outExists

AttemptFailed(p) ==
    /\ p.events # <<>>
    /\ ~AttemptSucceeded(p)

\* C9: when the hardware attempt ends with exit code 1 or 69 the transcode
\* is retried with the software profile exactly once; the conversion
\* succeeds if the software attempt succeeds, and if it fails the
\* conversion fails without a further attempt.
C9_FallbackExactlyOnce ==
    \A i \in Calls :
        (~procs[i].fallback /\ EndedWithCode(procs[i], {1, 69})) =>
            /\ Cardinality(StartedBy(i)) = 1
            /\ SoftwareCalls = StartedBy(i)
            /\ \A j \in StartedBy(i) :
                  /\ AttemptSucceeded(procs[j]) =>
                        /\ procs[i].promise = "resolved"
                        /\ cresult = "returned"
                  /\ AttemptFailed(procs[j]) =>
                        /\ procs[i].promise = "rejected"
                        /\ cresult = "threw"
                  /\ procs[j].events = <<>> =>
                        /\ procs[i].promise = "pending"
                        /\ cresult = "none"
                  /\ StartedBy(j) = {}
                  /\ Len(procs) = 2

C9_Witness ==
    /\ Len(procs) = 2
    /\ EndedWithCode(procs[1], {69})
    /\ AttemptSucceeded(procs[2])
    /\ cresult = "returned"

\* C10: when the hardware attempt ends with a non-zero exit code other
\* than 1 and 69, or with a process error that does not signal an
\* unavailable accelerator, no software retry is started and the
\* conversion fails.
C10_NoFallbackOnOtherFailure ==
    \A i \in Calls :
        (/\ ~procs[i].fallback
         /\ procs[i].events # <<>>
         /\ \/ /\ FirstEvent(procs[i]).kind = "close"
               /\ FirstEvent(procs[i]).code \notin {0, 1, 69}
            \/ /\ FirstEvent(procs[i]).kind = "error"
               /\ ~FirstEvent(procs[i]).videotoolbox)
        => /\ SoftwareCalls = {}
           /\ Len(procs) = 1
           /\ procs[i].promise = "rejected"
           /\ cresult = "threw"
           /\ cpc = "done"

C10_Witness ==
    /\ Len(procs) = 1
    /\ EndedWithCode(procs[1], {2})
    /\ out.exists
    /\ cresult = "threw"

\* the conversion and performDownload ended in an error
ConversionFailed ==
    /\ cpc = "done"
    /\ cresult = "threw"
    /\ dresult \in {"none", "threw"}
    /\ dresult = "none" => ENABLED PerformDownloadSettled

\* a transcode ended with exit code 0 and no file at the output path
TranscodeOutputMissing(p) ==
    /\ EndedWithCode(p, {0})
    /\ ~FirstEvent(p).outExists

\* the looping ffmpeg ended with exit code 0 and no extended file
ExtensionOutputMissing ==
    /\ chist.extendCodes = <<0>>
    /\ ~chist.extendExists

\* C11: when a transcode or the duration extension exits with code 0 but
\* the expected output file does not exist, the call is rejected instead
\* of returning the output path, and convertToMov and performDownload end
\* with that error.
C11_MissingOutputIsFailure ==
    /\ \A i \in Calls :
          TranscodeOutputMissing(procs[i]) =>
              /\ procs[i].promise = "rejected"
              /\ procs[1].promise = "rejected"
              /\ ConversionFailed
    /\ ExtensionOutputMissing =>
          /\ ~chist.extendResolved
          /\ procs = NoProcs
          /\ ConversionFailed

C11_Witness ==
    /\ dresult = "threw"
    /\ Len(procs) = 2
    /\ TranscodeOutputMissing(procs[2])

\* C12: extendVideo never reports success when, after exit code 0 of the
\* looping ffmpeg, the extended file is missing or has zero bytes.
C12_NoSuccessOnEmptyExtension ==
    (/\ chist.extendCodes = <<0>>
     /\ (~chist.extendExists \/ chist.extendSize = 0))
    => ~chist.extendResolved

\* cleanupSourceFile was called with source file c.s and converted file c.o
\* and has removed the source
RemovedBy(c) == c.s.exists /\ ~src.exists

SizeCheckPassed(c) == c.o.exists /\ c.o.size * 10 >= c.s.size

\* C13 as stated: the source is removed only if the converted file exists,
\* has at least 10% of the size of the source, and the extension of the
\* source is .mp4.
C13_AsStated ==
    \A k \in 1..Len(chist.cleanup) :
        RemovedBy(chist.cleanup[k]) =>
            /\ SizeCheckPassed(chist.cleanup[k])
            /\ chist.cleanup[k].s.ext = <<"m","p","4">>

\* C13 (amended): cleanupSourceFile removes the source only if the
\* converted file exists, has at least 10% of the size of the source, and
\* the extension of the source is mp4 in any letter case; in every other
\* case the source file is present and unchanged afterwards.
C13_CleanupOnlyAfterSanityCheck ==
    \A k \in 1..Len(chist.cleanup) :
        /\ src \in {chist.cleanup[k].s, [chist.cleanup[k].s EXCEPT !.exists = FALSE]}
        /\ RemovedBy(chist.cleanup[k]) =>
              /\ SizeCheckPassed(chist.cleanup[k])
              /\ ToLowerCase(chist.cleanup[k].s.ext) = <<"m","p","4">>

C13_Witness ==
    /\ cpc = "cleaned"
    /\ chist.cleanup # <<>>
    /\ chist.cleanup[1].s.exists
    /\ chist.cleanup[1].s.ext = <<"m","p","4">>
    /\ chist.cleanup[1].o.exists
    /\ ~SizeCheckPassed(chist.cleanup[1])
    /\ src.exists

\* C14: in convertToMov the source file is not deleted before the final
\* transcoded output exists and has passed the size check: the source is
\* touched only by the clean-up that follows a resolved transcode, and
\* when probing, extension or transcoding fails the source is still
\* present, unchanged, when convertToMov ends.
C14_SourceKeptUntilOutputChecked ==
    /\ cresult \in {"none", "threw"} => src = chist.src0
    /\ src # chist.src0 =>
          /\ cresult = "returned"
          /\ procs # NoProcs
          /\ procs[1].promise = "resolved"
          /\ Len(chist.cleanup) = 1
          /\ chist.cleanup[1].s = chist.src0
          /\ SizeCheckPassed(chist.cleanup[1])

C14_Witness ==
    /\ cresult = "threw"
    /\ procs # NoProcs
    /\ procs[1].promise = "rejected"
    /\ out.exists
    /\ out.size * 10 >= src.size
    /\ ToLowerCase(src.ext) = <<"m","p","4">>
    /\ src.exists

\* the probe of convertToMov returned a duration of at least the minimum
LongEnough == ~duration.nan /\ duration.val >= minRecommendedDuration

\* C15: when the probed duration is greater than or equal to the
\* configured minimum, convertToMov does not invoke extendVideo, no
\* extended file is produced, and the transcoder receives the input path.
C15_NoExtensionWhenLongEnough ==
    LongEnough =>
        /\ ~chist.extendCalled
        /\ cpc \notin {"extend_probe", "extend"}
        /\ chist.extendCodes = <<>>
        /\ extended = chist.extended0
        /\ ~chist.extended0 => extendedSize = 0
        /\ processed = "input"
        /\ cpc \in {"transcode", "done"}
        /\ procs # NoProcs

C15_Witness ==
    /\ duration = Num(minRecommendedDuration)
    /\ ~chist.extended0
    /\ cresult = "returned"
    /\ procs # NoProcs
    /\ procs[1].promise = "resolved"

\* the minimum the README documents: 3 minutes, in seconds
DocumentedMinimum == 3 * 60

\* C16: every source video shorter than 3 minutes is extended by looping
\* before it is transcoded, so that the transcoder input is at least
\* 3 minutes long.
C16_ShortVideosExtendedToThreeMinutes ==
    (/\ procs # NoProcs
     /\ ~duration.nan
     /\ duration.val < DocumentedMinimum)
    => /\ processed = "extended"
       /\ ~TranscoderInputDuration.nan
       /\ TranscoderInputDuration.val >= DocumentedMinimum

RefreshStages == {"daemon", "osascript", "touch"}

\* C17: once the copy succeeded and the target file is verified to exist,
\* installWallpaper reports success whatever the refresh commands do:
\* every refresh failure is swallowed, the refresh can always go on to
\* its end, and the result of the install is never a failure.
C17_RefreshNeverFailsInstall ==
    hist.verified =>
        /\ pc \in RefreshStages \cup {"done"}
        /\ pc \in RefreshStages =>
              /\ result = "none"
              /\ ENABLED (DaemonCommandDone \/ RefreshScriptDone \/ TouchDone)
        /\ pc = "done" =>
              /\ result = "true"
              /\ outcome = "installed"

C17_Witness ==
    /\ hist.verified
    /\ hist.refreshErrors = {"daemon", "script", "touch"}
    /\ result = "true"

-----------------------------------------------------------------------------
(* Properties of Utils.fixFilePermissions (specification SpecPerm) *)

StepsOf(p) == {p.steps[k] : k \in 1..Len(p.steps)}

\* C18: Utils.fixFilePermissions never rejects and settles exactly once
\* with a boolean: true only if every step it attempted succeeded, false
\* on any failure (chown spawn error, non-zero chown exit, chmod error).
C18_PermissionFixSettlesWithBoolean ==
    /\ perm.promise \in {"pending", "true", "false"}
    /\ perm.pc = "done" => perm.promise # "pending"
    /\ (perm.pc = "chown" /\ perm.promise = "pending") =>
          ENABLED (ChownError \/ ChownClose)
    /\ perm.promise = "pending" => perm.resolveCalls = 0
    /\ perm.promise = "true" =>
          /\ \A st \in StepsOf(perm) : st.ok
          /\ Step("chmod", TRUE) \in StepsOf(perm)
          /\ perm.file.mode = "rw-rw-r--"
          /\ RunningWithSudo(perm.env) => perm.file.owner = "user"
    /\ (\E st \in StepsOf(perm) : ~st.ok) => perm.promise = "false"
    /\ perm.promise = "false" => \E st \in StepsOf(perm) : ~st.ok

C18_Witness ==
    /\ perm.pc = "done"
    /\ perm.promise = "false"
    /\ perm.events = <<"error", "close">>
    /\ perm.resolveCalls = 2

\* a chown subprocess was started by the call
ChownStarted ==
    \/ perm.pc = "chown"
    \/ perm.events # <<>>
    \/ \E st \in StepsOf(perm) : st.step = "chown"

\* position of the first step of that name among the steps (0: none)
FirstStep(name) ==
    IF \E k \in 1..Len(perm.steps) : perm.steps[k].step = name
    THEN CHOOSE k \in 1..Len(perm.steps) :
            /\ perm.steps[k].step = name
            /\ \A j \in 1..(k - 1) : perm.steps[j].step # name
    ELSE 0

\* C28: fixFilePermissions starts the chown to SUDO_UID:SUDO_GID only when
\* these identifiers are in the environment, and under sudo it sets the
\* mode rw-rw-r-- only after chown has ended with 0; when it detects no
\* sudo it sets the mode only and starts no chown.
C28_OwnershipOnlyUnderSudo ==
    /\ ChownStarted => perm.env.sudoUid /\ perm.env.sudoGid
    /\ (ChownStarted /\ FirstStep("chmod") # 0) =>
          /\ FirstStep("chown") # 0
          /\ FirstStep("chown") < FirstStep("chmod")
          /\ perm.steps[FirstStep("chown")].ok
          /\ perm.file.owner = "user"
    /\ (perm.pc = "done" /\ ~(perm.env.sudoUid /\ perm.env.sudoGid)) =>
          /\ Len(perm.steps) = 1
          /\ perm.steps[1].step = "chmod"
          /\ ~ChownStarted
    /\ (perm.pc = "done" /\ ~ChownStarted) =>
          \/ perm.steps = <<Step("spawn", FALSE)>>
          \/ Len(perm.steps) = 1 /\ perm.steps[1].step = "chmod"
    /\ perm.file.mode = "rw-rw-r--" => Step("chmod", TRUE) \in StepsOf(perm)

C28_Witness ==
    /\ perm.pc = "done"
    /\ RunningWithSudo(perm.env)
    /\ ~perm.env.sudoUser
    /\ perm.steps = <<Step("chown", TRUE), Step("chmod", TRUE)>>
    /\ perm.file = [owner |-> "user", mode |-> "rw-rw-r--"]

-----------------------------------------------------------------------------
(* Properties of the callers of fixFilePermissions *)

PermCalls == {hist.permCalls[k] : k \in 1..Len(hist.permCalls)}

\* C19: fixFilePermissions is invoked on the created file after each of
\* the three file-creating steps: after the backup copy, after the
\* transcode output is written, and after the install copy.
C19_NormalizerAfterEveryFileCreation ==
    /\ BackupsOfThisRun # {} => "backup" \in PermCalls
    /\ (\E i \in Calls : AttemptSucceeded(procs[i])) => perm.path = "output"
    /\ (hist.written # {} /\ pc = "done") => "install" \in PermCalls

\* C20: a failure of fixFilePermissions does not fail the step that
\* called it: createBackup returns the backup path and setupWallpaper
\* goes on, and the call of convertWithHEVC whose transcode succeeded
\* resolves, whatever fixFilePermissions reports and before it reports.
C20_NormalizerFailureIsNotFatal ==
    /\ hist.permissionFixed # <<>> =>
          /\ hist.backupReturned = "path"
          /\ ~hist.backupFailed
          /\ BackupsOfThisRun # {}
          /\ pc \notin {"backup", "backup_perm"}
    /\ perm.path = "output" =>
          \E i \in Calls :
              /\ AttemptSucceeded(procs[i])
              /\ procs[i].promise = "resolved"
              /\ procs[i].parent = 0 => cresult = "returned"

C20_Witness ==
    /\ hist.permissionFixed = <<"false">>
    /\ hist.backupReturned = "path"
    /\ result = "true"

-----------------------------------------------------------------------------
(* Properties of the subprocesses of the pipeline *)

\* C21: every subprocess started by the pipeline has completed before the
\* next stage starts, so that at no time more than one pipeline
\* subprocess is outstanding.
C21_OneSubprocessAtATime == OutstandingSubprocesses <= 1

\* C22: when SIGINT or SIGTERM arrives while a subprocess of the pipeline is
\* running (yt-dlp, ffprobe, the looping ffmpeg, a transcode), the
\* subprocess is sent a termination signal before the program exits: no
\* subprocess is left running by a program that was interrupted.
C22_InterruptTerminatesSubprocesses == host.interrupted => host.left = {}

-----------------------------------------------------------------------------
(* Properties of the host program (specifications Spec, SpecHost) *)

\* the run has ended in a failure: a dependency is missing, the analysis,
\* the download or the conversion threw, setupWallpaper threw (directory
\* not accessible, seed timeout), the backup or the installation failed
FatalFailure ==
    \/ host.error # "none"
    \/ dresult = "threw"
    \/ result = "false" /\ outcome \in {"threw", "install_failed"}
    \/ hist.backupFailed

\* C23: a run that ends in a fatal failure ends the process with a status
\* other than 0.
C23_FatalFailureExitsNonZero ==
    (~Alive /\ ~host.interrupted /\ FatalFailure) => host.status # <<0>>

\* C25: started with --cleanup the program does not start the pipeline: no
\* URL prompt, no download, no conversion, no installation.
C25_CleanupFlagSkipsPipeline ==
    host.cleanupFlag =>
        /\ host.started \cap {"pipeline", "url", "download", "setup"} = {}
        /\ host.downloads = <<>>
        /\ cpc = "idle"

\* the value the catch blocks of setupWallpaper and of installWallpaper
\* return
ReturnedOnFailure == "false"

\* every failure of setupWallpaper returns ReturnedOnFailure
FailuresReturnIt ==
    (pc = "done" /\ outcome \in {"threw", "install_failed"}) =>
        result = ReturnedOnFailure

\* C24: the value setupWallpaper returns when the user cancels differs from
\* the value it returns on a failure (directory not accessible, seed
\* timeout, installation failure).
C24_CancelDistinctFromFailure ==
    (pc = "done" /\ outcome = "cancelled") => result # ReturnedOnFailure

-----------------------------------------------------------------------------
(* Properties of getExistingWallpapers (specification SpecScan) *)

\* names of the entries of the directory that end in .mov or .mp4
VideoNames == {n \in DOMAIN tfiles : IsVideoName(n)}

\* the list holds each of the names S once, with what stat reports for it,
\* most recently modified first
ListsExactly(S) ==
    /\ Len(list) = Cardinality(S)
    /\ {list[i].name : i \in 1..Len(list)} = S
    /\ \A i \in 1..Len(list) : list[i] = WallpaperEntry(list[i].name, tfiles)
    /\ \A i, j \in 1..Len(list) : i < j => list[i].modified >= list[j].modified

\* C26: getExistingWallpapers returns exactly the entries of the target
\* directory whose name ends in .mov or .mp4, each with name, path, size,
\* creation and modification time, most recently modified first; it
\* returns the empty list when the directory does not exist or cannot be
\* read.
C26_InventoryIsExact ==
    pc = "scanned" =>
        IF dirState \in {"noTarget", "unreadable"}
        THEN list = <<>>
        ELSE ListsExactly(VideoNames)

\* the list is exact when every statSync of the scan succeeds
ScanExactWhenStatSucceeds ==
    (pc = "scanned" /\ \A n \in VideoNames : tfiles[n].statOk) =>
        IF dirState \in {"noTarget", "unreadable"}
        THEN list = <<>>
        ELSE ListsExactly(VideoNames)

-----------------------------------------------------------------------------
(* Properties of createBackup (specification Spec) *)

\* createBackup was called and its copy succeeded
BackupSucceeded == hist.backupCalls # <<>> /\ ~hist.backupFailed

\* a successful createBackup adds one file to the backup directory and
\* overwrites none: every earlier backup is there with its bytes, the new
\* file holds the bytes of the asset under its base name, and the asset is
\* still in place with the same bytes after the copy
SuccessfulBackupNeverOverwrites ==
    /\ hist.backups0 \subseteq backups
    /\ BackupSucceeded =>
          /\ Cardinality(backups) = Cardinality(hist.backups0) + 1
          /\ \A b \in BackupsOfThisRun :
                /\ b.base = BaseOf(target)
                /\ b.content = hist.dirAtBackup[target].content
                /\ \A o \in hist.backups0 :
                      BackupName(target, b.ts) # [base |-> o.base, ts |-> o.ts]
    /\ (BackupSucceeded /\ pc = "backup_perm") =>
          /\ target \in DOMAIN tfiles
          /\ tfiles[target] = hist.dirAtBackup[target]
    /\ ~BackupSucceeded => backups = hist.backups0

\* one backup file of this run for each asset that was overwritten
OneBackupPerReplacedAsset ==
    \A n \in hist.written :
        Cardinality({b \in BackupsOfThisRun : b.base = BaseOf(n)}) = 1

\* the replaced assets lack a backup only when createBackup failed
BackupMissingOnlyAfterFailure == ~hist.backupFailed => OneBackupPerReplacedAsset

\* C27: a successful createBackup creates a new file in the backup
\* directory and overwrites no earlier backup, the asset is copied and not
\* moved, and one backup file exists for each asset that was replaced.
C27_OneBackupPerReplacement ==
    SuccessfulBackupNeverOverwrites /\ OneBackupPerReplacedAsset

-----------------------------------------------------------------------------
(* Properties of performDownload (specification SpecHost) *)

\* performDownload has been entered
PerformDownloadEntered == "download" \in host.started

\* C30: performDownload starts a download only when neither the .mov file
\* nor the source file of the computed output name exists: an existing
\* .mov is returned with no download and no conversion, an existing source
\* alone is converted with no download.
C30_DownloadOnlyWhenNothingExists ==
    /\ host.downloads # <<>> => ~host.files0.mov /\ ~host.files0.source
    /\ (PerformDownloadEntered /\ host.files0.mov) =>
          /\ host.downloads = <<>>
          /\ cpc = "idle"
          /\ procs = NoProcs
          /\ dresult = "returned"
          /\ chist.cleanup = <<>>
    /\ (PerformDownloadEntered /\ ~host.files0.mov /\ host.files0.source) =>
          /\ host.downloads = <<>>
          /\ cpc # "idle"
          /\ chist.src0.exists

C30_Witness ==
    /\ host.files0 = [mov |-> FALSE, source |-> TRUE]
    /\ host.downloads = <<>>
    /\ cresult = "returned"
    /\ out.exists
    /\ host.pc = "setup"

-----------------------------------------------------------------------------
(* Properties of the cleanup utility (specification SpecUtil) *)

\* the files the run has deleted
UtilDeleted == DOMAIN util.files0 \ DOMAIN util.files

\* no file was deleted, no owner or mode was changed, and neither
\* fixFilePermissions nor unlinkSync was called
UtilUntouched ==
    /\ util.files = util.files0
    /\ util.permCalls = {}
    /\ util.unlinkCalls = {}

\* the user typed the number of the option at the menu
ChoseOption(k) == util.choice # NoUtilAnswer /\ Trim(util.choice) = <<k>>

\* the menu was answered with something other than 1 and 2
ChoseExit ==
    util.choice # NoUtilAnswer /\ ~ChoseOption("1") /\ ~ChoseOption("2")

UtilProblematic ==
    {util.problematicFiles[k] : k \in 1..Len(util.problematicFiles)}

\* option 1 hands every listed file to fixFilePermissions and deletes none
OptionOneOnlyFixes ==
    ChoseOption("1") =>
        /\ UtilDeleted = {}
        /\ util.unlinkCalls = {}
        /\ util.permCalls \subseteq UtilProblematic
        /\ util.pc = "done" => util.permCalls = UtilProblematic

\* C29 as stated: files are deleted only after option 2 and the answer 'y'
\* or 'yes'; option 3, an unrecognised choice and any other answer to the
\* confirmation delete nothing and change no permission; option 1 changes
\* permissions and deletes nothing.
C29_AsStated ==
    /\ UtilDeleted # {} =>
          /\ ChoseOption("2")
          /\ util.confirmation \in {<<"y">>, <<"y","e","s">>}
    /\ ChoseExit => UtilUntouched
    /\ (util.confirmation # NoUtilAnswer
            /\ util.confirmation \notin {<<"y">>, <<"y","e","s">>}) => UtilUntouched
    /\ OptionOneOnlyFixes

\* C29: files are deleted only after option 2 and the answer 'y' or 'yes'
\* in any letter case; option 3, an unrecognised choice and any other
\* answer to the confirmation delete nothing and change no permission;
\* option 1 changes permissions and deletes nothing.
C29_DeleteOnlyWhenConfirmed ==
    /\ (UtilDeleted # {} \/ util.unlinkCalls # {}) =>
          /\ ChoseOption("2")
          /\ ToLowerCase(util.confirmation) \in {<<"y">>, <<"y","e","s">>}
    /\ ChoseExit => UtilUntouched
    /\ (util.confirmation # NoUtilAnswer
            /\ ToLowerCase(util.confirmation) \notin {<<"y">>, <<"y","e","s">>})
          => UtilUntouched
    /\ OptionOneOnlyFixes

C29_Witness ==
    /\ util.pc = "done"
    /\ util.choice = <<" ", "2">>
    /\ util.confirmation = <<"y","e","s">>
    /\ Cardinality(UtilDeleted) = 2

-----------------------------------------------------------------------------
(* Properties of installWallpaper (specification Spec) *)

\* a refresh command was started: the launchctl commands, the osascript or
\* the touch
RefreshStarted ==
    pc \in RefreshStages \/ completed > 0 \/ hist.refreshErrors # {}

\* the video is in place at the target path
InstalledInPlace ==
    /\ TargetPath(target) \in DOMAIN tfiles
    /\ tfiles[TargetPath(target)].content = NewContent

\* C31: installWallpaper returns false, and does not throw, when the copy
\* fails or the target file is absent after the copy, and then no refresh
\* command is run; refresh commands run only after a copy whose target
\* file was found.
C31_NoRefreshAfterFailedInstall ==
    /\ hist.installCalls # <<>> => outcome # "threw"
    /\ outcome = "install_failed" =>
          /\ result = "false"
          /\ ~RefreshStarted
    /\ (pc = "done" /\ hist.installCalls # <<>> /\ ~InstalledInPlace) =>
          /\ result = "false"
          /\ ~RefreshStarted
    /\ RefreshStarted =>
          /\ TargetPath(target) \in hist.written
          /\ InstalledInPlace

C31_Witness ==
    /\ outcome = "install_failed"
    /\ hist.written # {}
    /\ TargetPath(target) \notin DOMAIN tfiles
    /\ result = "false"

-----------------------------------------------------------------------------
(* Properties of waitForWallpaperSetup (specification SpecWait) *)

\* scans of the inventory the loop has made so far
ScansMade == attempts + (IF pc = "sleep" THEN 1 ELSE 0)

\* the loop is at its test or in its sleep
Waiting == pc \in {"wait", "sleep"}

\* one scan: it returns the most recently modified asset when there is
\* one, else the sleep follows
ScanStep ==
    (pc = "wait" /\ pc' # "wait") =>
        IF \E n \in DOMAIN tfiles : IsVideoName(n)
        THEN /\ pc' = "backup"
             /\ target' \in MostRecentVideo(tfiles)
             /\ hist'.detected = target'
        ELSE /\ pc' = "sleep"
             /\ attempts' = attempts

\* one sleep: the counter advances, the next scan or the time-out follows
SleepStep ==
    (pc = "sleep" /\ pc' # "sleep") =>
        /\ attempts' = attempts + 1
        /\ pc' = IF attempts' < retryAttempts THEN "wait" ELSE "done"

\* C32: waitForWallpaperSetup always terminates: it scans the inventory at
\* most retryAttempts times, one sleep follows each scan that found
\* nothing, and it returns at the first scan that finds an asset, with the
\* most recently modified asset of that scan.
C32_WaitTerminates ==
    /\ [](Waiting => (attempts < retryAttempts /\ ScansMade <= retryAttempts))
    /\ [][ScanStep /\ SleepStep]_vars
    /\ (Waiting ~> ~Waiting)

\* the last scan the loop allows has been made and its sleep goes on
C32_Witness ==
    /\ pc = "sleep"
    /\ ScansMade = retryAttempts
    /\ hist.waitEntered
    /\ hist.detected = NoAsset

-----------------------------------------------------------------------------
(* Properties of selectWallpaperFromList (specification Spec) *)

\* the answer parses to a number of the menu
NumberOfMenu(answer, n) ==
    /\ ~ParseInt(answer).nan
    /\ ParseInt(answer).val >= 1
    /\ ParseInt(answer).val <= n

CancelWord(answer) ==
    ToLowerCase(answer) \in {<<"c">>, <<"c","a","n","c","e","l">>}

ListedAssets == {list[i] : i \in 1..Len(list)}

\* one answer to the menu, read from the history of the step
SelectStep ==
    (pc = "select" /\ hist' # hist) =>
        LET answer == hist'.selectAnswer IN
        /\ CancelWord(answer) =>
              /\ pc' = "done" /\ outcome' = "cancelled" /\ target' = NoAsset
        /\ (~CancelWord(answer) /\ NumberOfMenu(answer, Len(list))) =>
              /\ pc' # "select"
              /\ target' = list[ParseInt(answer).val]
              /\ target' \in ListedAssets
              /\ outcome' # "cancelled"
        /\ (~CancelWord(answer) /\ ~NumberOfMenu(answer, Len(list))) =>
              /\ pc' = "select" /\ target' = NoAsset /\ outcome' = "running"

\* C33: selectWallpaperFromList resolves only with an element of the list
\* it was given or with null: the n-th asset for an input that parses to a
\* number n of 1..N, null for 'c' or 'cancel' in any letter case, and every
\* other input is asked again without resolving.
C33_SelectionResolvesFromList ==
    [][SelectStep /\ (pc = "select" /\ pc' # "select" => hist' # hist)]_vars

\* an answer with text after the number resolved with the asset of that
\* number
C33_Witness ==
    /\ hist.selectAnswer = <<"2","x">>
    /\ hist.selectShown
    /\ target = list[2]
    /\ pc = "confirm"

-----------------------------------------------------------------------------
(* Properties of downloadWithRetry (specification SpecHost) *)

AttemptsStarted == Len(host.downloads)

\* downloadWithRetry has thrown (convertToMov was never called)
DownloadThrew == dresult = "threw" /\ cpc = "idle" /\ host.downloads # <<>>

\* a yt-dlp is started: the first one, or the next one after the rejection
\* of the one before and the wait
AttemptStep ==
    Len(host'.downloads) > AttemptsStarted =>
        /\ Len(host'.downloads) = AttemptsStarted + 1
        /\ AttemptsStarted < DownloadRetryAttempts
        /\ AttemptsStarted > 0 =>
              /\ host.pc = "retry_wait"
              /\ host.downloads[AttemptsStarted] # <<>>

\* the wait before the next attempt is entered by a rejected attempt only
RejectStep ==
    (host.pc # "retry_wait" /\ host'.pc = "retry_wait") =>
        /\ host.pc = "downloading"
        /\ host'.downloads[AttemptsStarted] \in {<<"error">>, <<"close">>}
        /\ UNCHANGED <<src, cpc, dresult>>

\* an attempt settles: resolved with the path (convertToMov is called
\* next), rejected before the last attempt, or rejected at the last one
SettleStep ==
    (host.pc = "downloading" /\ host'.pc # "downloading" /\ host'.status = <<>>) =>
        \/ /\ host'.pc = "perform" /\ dresult' = "none"
           /\ src'.exists /\ cpc' = "start"
           /\ host'.downloads[AttemptsStarted] = <<"close">>
        \/ /\ host'.pc = "retry_wait"
           /\ AttemptsStarted < DownloadRetryAttempts
        \/ /\ host'.pc = "perform" /\ dresult' = "threw"
           /\ AttemptsStarted = DownloadRetryAttempts
           /\ UNCHANGED <<src, cpc>>

\* C34: downloadWithRetry starts at most retryAttempts download attempts,
\* starts attempt k+1 only after attempt k has failed, returns the path of
\* the first successful attempt without starting further attempts, and
\* fails with an error only after the last attempt has failed.
C34_RetryUntilSuccessOrLastAttempt ==
    /\ [](AttemptsStarted <= DownloadRetryAttempts)
    /\ [][AttemptStep /\ RejectStep /\ SettleStep]_vars
    /\ [](DownloadThrew =>
            /\ AttemptsStarted = DownloadRetryAttempts
            /\ \A k \in 1..AttemptsStarted : host.downloads[k] # <<>>)
    /\ []((cpc # "idle" /\ host.downloads # <<>>) =>
            /\ host.pc \notin {"downloading", "retry_wait"}
            /\ host.downloads[AttemptsStarted] = <<"close">>)

\* the third attempt succeeded after two rejected ones
C34_Witness ==
    /\ AttemptsStarted = DownloadRetryAttempts
    /\ host.downloads[1] = <<"error", "close">>
    /\ host.downloads[2] = <<"close">>
    /\ host.downloads[3] = <<"close">>
    /\ host.pc = "perform" /\ cpc = "start" /\ dresult = "none"

-----------------------------------------------------------------------------
(* Properties of the environment check of run() (specification SpecHost) *)

\* the analysis, a download, the extension or a transcode was started
VideoWorkStarted ==
    \/ host.started \cap {"analyze", "download", "setup", "summary"} # {}
    \/ host.downloads # <<>>
    \/ cpc # "idle"
    \/ procs # NoProcs

ElevatedPrivilegesDetected == host.env.isRoot \/ host.env.sudoUser

DependencyMissing == ~host.env.ytdlp \/ ~host.env.ffmpeg

\* the files of the output directory are as they were at the start
OutputFilesAsAtStart ==
    /\ src.exists = host.files0.source
    /\ out.exists = host.files0.mov
    /\ chist = ChistInit(src, extended)

\* C35: no video analysis, download, extension or transcode is started
\* unless the environment check has succeeded first (elevated privileges
\* detected, yt-dlp and ffmpeg available); a missing dependency ends the
\* run as a fatal error before any download or file change.
C35_NothingBeforeEnvironmentCheck ==
    /\ VideoWorkStarted =>
          /\ "deps" \in host.started
          /\ ElevatedPrivilegesDetected
          /\ ~DependencyMissing
    /\ (DependencyMissing /\ ~Alive /\ ~host.interrupted) =>
          /\ host.status = <<1>>
          /\ host.error \in {"missing", "no_sudo"}
          /\ ElevatedPrivilegesDetected => host.error = "missing"
    /\ DependencyMissing => /\ ~VideoWorkStarted /\ OutputFilesAsAtStart

\* ffmpeg is missing under sudo: the run ended with status 1 at the check
C35_Witness ==
    /\ host.env = HostEnvironment(TRUE, TRUE, TRUE, FALSE)
    /\ host.error = "missing"
    /\ host.status = <<1>>
    /\ host.started = {"pipeline", "url", "deps"}

-----------------------------------------------------------------------------
(* Properties of convertWithHEVC under its events (specification SpecConv) *)

HardwareStarts == {i \in 1..Len(procs) : ~procs[i].fallback}

SoftwareStarts == {i \in 1..Len(procs) : procs[i].fallback}

\* every event of every transcoder that was started has been delivered
AllEventsDelivered ==
    /\ procs # NoProcs
    /\ \A i \in 1..Len(procs) : Emitted(procs[i], "close")

\* a settled promise and a result of convertToMov stay as they are
SettledStays ==
    /\ cresult # "none" => cresult' = cresult
    /\ \A i \in 1..Len(procs) :
          procs[i].promise # "pending" =>
              /\ i <= Len(procs')
              /\ procs'[i].promise = procs[i].promise

\* C36: for one call of convertToMov the transcoder is started at most
\* twice (one hardware attempt, at most one software attempt) under every
\* ordering of the 'close' and 'error' events of those subprocesses, and
\* the result of the conversion is settled exactly once.
C36_AtMostTwoTranscodesOneResult ==
    /\ [](/\ Cardinality(HardwareStarts) <= 1
          /\ Cardinality(SoftwareStarts) <= 1
          /\ Len(procs) <= 2)
    /\ [][SettledStays]_vars
    /\ [](AllEventsDelivered =>
            /\ procs[1].promise # "pending"
            /\ cresult \in {"returned", "threw"})

\* the hardware transcoder emitted 'error' and then 'close', the software
\* transcoder it started has ended as well
C36_Witness ==
    /\ Len(procs) = 2
    /\ Len(procs[1].events) = 2
    /\ procs[1].events[1].kind = "error"
    /\ procs[1].events[2].kind = "close"
    /\ Emitted(procs[2], "close")
    /\ cresult = "threw"

-----------------------------------------------------------------------------
(* Properties of the download subprocess (specification SpecHost) *)

\* the yt-dlp processes that were spawned and have not ended or failed
RunningDownloads ==
    {k \in 1..Len(host.downloads) : host.downloads[k] = <<>>}

\* C37: whenever a yt-dlp subprocess started by downloadVideo is still
\* running, isDownloadInProgress() is true and currentProcess refers to
\* that subprocess, across the retries of downloadWithRetry and for every
\* ordering of the 'error' and 'close' events of earlier attempts, so
\* cancelDownload always terminates the running download.
C37_RunningDownloadIsCurrent ==
    /\ Alive =>
          /\ \A k \in RunningDownloads :
                /\ host.isDownloading
                /\ host.currentProcess = k
          /\ host.isDownloading <=> host.currentProcess # 0
          /\ host.currentProcess # 0 => host.currentProcess \in RunningDownloads
    /\ ~Alive =>
          \A k \in RunningDownloads :
              /\ <<"yt-dlp", k>> \in host.signalled
              /\ <<"yt-dlp", k>> \notin host.left

\* the second attempt runs after 'error' and 'close' of the first one
C37_Witness ==
    /\ Alive
    /\ host.downloads = << <<"error", "close">>, <<>> >>
    /\ host.isDownloading
    /\ host.currentProcess = 2

-----------------------------------------------------------------------------
(* Properties of restartWallpaperDaemon (specification Spec) *)

\* exec of 'launchctl load' has been called: the forEach of
\* restartWallpaperDaemon calls exec for both commands in one turn
DaemonLoadStarted == pc = "daemon" \/ completed > 0

\* callbacks of the launchctl commands that have run; the callback of
\* 'launchctl unload' is among them at best
DaemonCommandsCompleted == completed

\* C38: restartWallpaperDaemon of the wallpaper manager starts the daemon
\* 'load' command only after the daemon 'unload' command has completed, so
\* that the daemon is never loaded before it was unloaded.
C38_LoadOnlyAfterUnload ==
    DaemonLoadStarted => DaemonCommandsCompleted >= 1

-----------------------------------------------------------------------------
(* Properties of the extended intermediate file (specification SpecConv) *)

\* extendVideo resolved in this call: <name>_extended.mp4 was written and
\* handed to convertWithHEVC
ExtendedFileCreated == processed = "extended"

ConvertToMovFinished == cpc = "done"

\* C39: if convertToMov created an extended intermediate file, that file no
\* longer exists when convertToMov finishes, whether the transcode that
\* followed succeeded or failed.
C39_ExtendedFileRemoved ==
    (ConvertToMovFinished /\ ExtendedFileCreated) => ~extended

-----------------------------------------------------------------------------
(* Properties of findBestVideoFormat (specification SpecFormat) *)

FormatsOfList == {fmt.formats[i] : i \in 1..Len(fmt.formats)}

\* C40: for every non-empty list of candidate video formats,
\* findBestVideoFormat returns one format of that list (never undefined)
\* whose height does not exceed the configured maxResolution.
C40_BestFormatWithinMaxResolution ==
    (fmt.pc = "returned" /\ fmt.formats # <<>>) =>
        /\ fmt.best.kind = "format"
        /\ fmt.best.format[1] \in FormatsOfList
        /\ fmt.best.format[1].height <= maxResolution

=============================================================================
